---- MODULE Spec2Model ----
(* Verification model of the sentix repository: the alert engine        *)
(* (alerts/rule.py, alerts/engine.py), the labeler (backtest/label.py), *)
(* the bucket aggregator (features/aggregate.py), bar persistence       *)
(* (database.py), the model artifact and feature selection              *)
(* (models/prob_model.py), the backtesters (backtest/backtester.py,     *)
(* backtest/walk_forward.py), the pipeline (main.py), the price loader  *)
(* (backtest/label.py), the serving endpoints (api/app.py), the         *)
(* threshold consumers (scheduler.py, notify/telegram.py), the          *)
(* sentiment scorer (sentiment/finbert.py), the entity normalizer       *)
(* (ingest/normalize.py), RSS ingestion (ingest/rss_client.py), the     *)
(* rule store and monitor thread (alerts/engine.py) and the scheduled   *)
(* jobs (scheduler.py, database.py).                                    *)
EXTENDS Integers, Sequences, FiniteSets, TLC

VARIABLES
    rules, now, last_pass,
    sent_bars, prices_weekly, horizon_bars, training_set, label_pc,
    articles, window, price_obs, sentiment_bars, prices_resampled, merged, agg_done,
    db_rows, tx_rows, db_lock, saves,
    model_file, trainer, loads,
    feature_cols, X_in, X_sel, proba, X_alt, proba_alt, feat_pc,
    bt_df, threshold_long, costs_bps, bt_out, bt_pc,
    wf_y, wf_params, wf_results, wf_call, wf_pc,
    pipe_in, pipe_df, pipe_files, pipe_stages, pipe_pc,
    price_env, prices_df, price_pc,
    api_model, api_bars, api_response,
    signal_config, signal_env, signal_run,
    sc_texts, sc_batch_size, sc_results, sc_calls, sc_pc,
    map_df, tickers_yml, map_out, map_pc,
    rss_feeds, rss_langs, rss_i, rss_articles, rss_seen, rss_pc,
    max_retries, attempt, parse_log, sleeps, fetch_result, fetch_pc,
    engine_rules, rules_file, store_now, last_fired, refired, store_op,
    dict_entries, iteration,
    is_running, monitor_thread, monitor_threads, caller,
    job_table, job_model, job_bars_df, job_used, job_pc,
    ingest_df, ingest_tickers, ingest_mapped, articles_table, ingest_count, ingest_pc

alertVars == <<rules, now, last_pass>>
labelVars == <<sent_bars, prices_weekly, horizon_bars, training_set, label_pc>>
aggVars == <<articles, window, price_obs, sentiment_bars, prices_resampled, merged, agg_done>>
dbVars == <<db_rows, tx_rows, db_lock, saves>>
artifactVars == <<model_file, trainer, loads>>
featVars == <<feature_cols, X_in, X_sel, proba, X_alt, proba_alt, feat_pc>>
btVars == <<bt_df, threshold_long, costs_bps, bt_out, bt_pc>>
walkVars == <<wf_y, wf_params, wf_results, wf_call, wf_pc>>
pipeVars == <<pipe_in, pipe_df, pipe_files, pipe_stages, pipe_pc>>
pricesVars == <<price_env, prices_df, price_pc>>
serveVars == <<api_model, api_bars, api_response>>
signalsVars == <<signal_config, signal_env, signal_run>>
scorerVars == <<sc_texts, sc_batch_size, sc_results, sc_calls, sc_pc>>
mapperVars == <<map_df, tickers_yml, map_out, map_pc>>
rssVars == <<rss_feeds, rss_langs, rss_i, rss_articles, rss_seen, rss_pc>>
fetchVars == <<max_retries, attempt, parse_log, sleeps, fetch_result, fetch_pc>>
storeVars == <<engine_rules, rules_file, store_now, last_fired, refired, store_op>>
raceVars == <<dict_entries, iteration>>
monitorVars == <<is_running, monitor_thread, monitor_threads, caller>>
jobVars == <<job_table, job_model, job_bars_df, job_used, job_pc>>
ingestVars == <<ingest_df, ingest_tickers, ingest_mapped, articles_table, ingest_count, ingest_pc>>
vars == <<alertVars, labelVars, aggVars, dbVars, artifactVars, featVars, btVars, walkVars, pipeVars, pricesVars, serveVars, signalsVars, scorerVars, mapperVars, rssVars, fetchVars, storeVars, raceVars, monitorVars, jobVars, ingestVars>>

\* what the operations of one component leave alone: the other components
alertFrame == UNCHANGED <<labelVars, aggVars, dbVars, artifactVars, featVars, btVars, walkVars, pipeVars, pricesVars, serveVars, signalsVars, scorerVars, mapperVars, rssVars, fetchVars, storeVars, raceVars, monitorVars, jobVars, ingestVars>>
labelFrame == UNCHANGED <<alertVars, aggVars, dbVars, artifactVars, featVars, btVars, walkVars, pipeVars, pricesVars, serveVars, signalsVars, scorerVars, mapperVars, rssVars, fetchVars, storeVars, raceVars, monitorVars, jobVars, ingestVars>>
aggFrame == UNCHANGED <<alertVars, labelVars, dbVars, artifactVars, featVars, btVars, walkVars, pipeVars, pricesVars, serveVars, signalsVars, scorerVars, mapperVars, rssVars, fetchVars, storeVars, raceVars, monitorVars, jobVars, ingestVars>>
dbFrame == UNCHANGED <<alertVars, labelVars, aggVars, artifactVars, featVars, btVars, walkVars, pipeVars, pricesVars, serveVars, signalsVars, scorerVars, mapperVars, rssVars, fetchVars, storeVars, raceVars, monitorVars, jobVars, ingestVars>>
artifactFrame == UNCHANGED <<alertVars, labelVars, aggVars, dbVars, featVars, btVars, walkVars, pipeVars, pricesVars, serveVars, signalsVars, scorerVars, mapperVars, rssVars, fetchVars, storeVars, raceVars, monitorVars, jobVars, ingestVars>>
featFrame == UNCHANGED <<alertVars, labelVars, aggVars, dbVars, artifactVars, btVars, walkVars, pipeVars, pricesVars, serveVars, signalsVars, scorerVars, mapperVars, rssVars, fetchVars, storeVars, raceVars, monitorVars, jobVars, ingestVars>>
btFrame == UNCHANGED <<alertVars, labelVars, aggVars, dbVars, artifactVars, featVars, walkVars, pipeVars, pricesVars, serveVars, signalsVars, scorerVars, mapperVars, rssVars, fetchVars, storeVars, raceVars, monitorVars, jobVars, ingestVars>>
walkFrame == UNCHANGED <<alertVars, labelVars, aggVars, dbVars, artifactVars, featVars, btVars, pipeVars, pricesVars, serveVars, signalsVars, scorerVars, mapperVars, rssVars, fetchVars, storeVars, raceVars, monitorVars, jobVars, ingestVars>>
pipeFrame == UNCHANGED <<alertVars, labelVars, aggVars, dbVars, artifactVars, featVars, btVars, walkVars, pricesVars, serveVars, signalsVars, scorerVars, mapperVars, rssVars, fetchVars, storeVars, raceVars, monitorVars, jobVars, ingestVars>>
pricesFrame == UNCHANGED <<alertVars, labelVars, aggVars, dbVars, artifactVars, featVars, btVars, walkVars, pipeVars, serveVars, signalsVars, scorerVars, mapperVars, rssVars, fetchVars, storeVars, raceVars, monitorVars, jobVars, ingestVars>>
serveFrame == UNCHANGED <<alertVars, labelVars, aggVars, dbVars, artifactVars, featVars, btVars, walkVars, pipeVars, pricesVars, signalsVars, scorerVars, mapperVars, rssVars, fetchVars, storeVars, raceVars, monitorVars, jobVars, ingestVars>>
signalsFrame == UNCHANGED <<alertVars, labelVars, aggVars, dbVars, artifactVars, featVars, btVars, walkVars, pipeVars, pricesVars, serveVars, scorerVars, mapperVars, rssVars, fetchVars, storeVars, raceVars, monitorVars, jobVars, ingestVars>>
scorerFrame == UNCHANGED <<alertVars, labelVars, aggVars, dbVars, artifactVars, featVars, btVars, walkVars, pipeVars, pricesVars, serveVars, signalsVars, mapperVars, rssVars, fetchVars, storeVars, raceVars, monitorVars, jobVars, ingestVars>>
mapperFrame == UNCHANGED <<alertVars, labelVars, aggVars, dbVars, artifactVars, featVars, btVars, walkVars, pipeVars, pricesVars, serveVars, signalsVars, scorerVars, rssVars, fetchVars, storeVars, raceVars, monitorVars, jobVars, ingestVars>>
rssFrame == UNCHANGED <<alertVars, labelVars, aggVars, dbVars, artifactVars, featVars, btVars, walkVars, pipeVars, pricesVars, serveVars, signalsVars, scorerVars, mapperVars, fetchVars, storeVars, raceVars, monitorVars, jobVars, ingestVars>>
fetchFrame == UNCHANGED <<alertVars, labelVars, aggVars, dbVars, artifactVars, featVars, btVars, walkVars, pipeVars, pricesVars, serveVars, signalsVars, scorerVars, mapperVars, rssVars, storeVars, raceVars, monitorVars, jobVars, ingestVars>>
storeFrame == UNCHANGED <<alertVars, labelVars, aggVars, dbVars, artifactVars, featVars, btVars, walkVars, pipeVars, pricesVars, serveVars, signalsVars, scorerVars, mapperVars, rssVars, fetchVars, raceVars, monitorVars, jobVars, ingestVars>>
raceFrame == UNCHANGED <<alertVars, labelVars, aggVars, dbVars, artifactVars, featVars, btVars, walkVars, pipeVars, pricesVars, serveVars, signalsVars, scorerVars, mapperVars, rssVars, fetchVars, storeVars, monitorVars, jobVars, ingestVars>>
monitorFrame == UNCHANGED <<alertVars, labelVars, aggVars, dbVars, artifactVars, featVars, btVars, walkVars, pipeVars, pricesVars, serveVars, signalsVars, scorerVars, mapperVars, rssVars, fetchVars, storeVars, raceVars, jobVars, ingestVars>>
jobFrame == UNCHANGED <<alertVars, labelVars, aggVars, dbVars, artifactVars, featVars, btVars, walkVars, pipeVars, pricesVars, serveVars, signalsVars, scorerVars, mapperVars, rssVars, fetchVars, storeVars, raceVars, monitorVars, ingestVars>>
ingestFrame == UNCHANGED <<alertVars, labelVars, aggVars, dbVars, artifactVars, featVars, btVars, walkVars, pipeVars, pricesVars, serveVars, signalsVars, scorerVars, mapperVars, rssVars, fetchVars, storeVars, raceVars, monitorVars, jobVars>>

(* ------------------------------------------------------------------ *)
(* Shared helpers                                                      *)
(* ------------------------------------------------------------------ *)

\* numpy NaN, the value pd.isna() recognises (field values are 0..MaxVal)
NaN == -1

\* Python None for AlertRule.last_triggered
None == -1

Range(s) == {s[i] : i \in DOMAIN s}

(* ------------------------------------------------------------------ *)
(* Alert rules: alerts/rule.py                                         *)
(* ------------------------------------------------------------------ *)

MaxTime == 3
MaxRules == 2
MaxBars == 2
MaxVal == 1

AlertTickers == {"T1", "T2"}
Buckets == 1..2
FieldVals == (0..MaxVal) \cup {NaN}

\* the columns of the sentiment_bars table handed to process_alerts
BarColumns == {"ticker", "bucket_start", "mean_sent"}

Cond(f, op, v) == [field |-> f, operator |-> op, value |-> v]

MkRule(id, conds, en, cd) ==
    [rule_id |-> id, ticker |-> "T1", conditions |-> conds, enabled |-> en,
     cooldown_minutes |-> cd, last_triggered |-> None]

\* the rules a collection is drawn from; a scalar value v of a condition is
\* <<v>>, a [lo, hi] list is <<lo, hi>>
RuleCatalogue ==
    { MkRule("and2", <<Cond("mean_sent", ">=", <<0>>), Cond("mean_sent", ">", <<0>>)>>, TRUE, 2),
      MkRule("vol", <<Cond("mean_sent", "<=", <<1>>), Cond("volatility", "<", <<1>>)>>, TRUE, 3),
      MkRule("badvalue", <<Cond("mean_sent", "!=", <<0>>), Cond("mean_sent", "between", <<1>>)>>, TRUE, 1),
      MkRule("bogus", <<Cond("mean_sent", "~", <<0>>)>>, TRUE, 1),
      MkRule("off", <<Cond("mean_sent", "cross_above", <<0>>)>>, FALSE, 1) }

\* sentiment_data: tables of at most MaxBars bars, one per (ticker, bucket_start);
\* ticker T2 has one possible bar
AllBars ==
    { b \in [ticker : AlertTickers, bucket_start : Buckets, mean_sent : FieldVals] :
        b.ticker = "T2" => (b.bucket_start = 1 /\ b.mean_sent = 1) }

DataTables ==
    { d \in SUBSET AllBars :
        /\ Cardinality(d) <= MaxBars
        /\ \A a, b \in d : (a.ticker = b.ticker /\ a.bucket_start = b.bucket_start) => a = b }

\* volatility_data: None or {} (both falsy) is {}, a dict is a set of entries
VolTables == { {}, {[ticker |-> "T2", value |-> 1]} }

VolGet(vol, tk, default) ==
    IF \E e \in vol : e.ticker = tk
    THEN (CHOOSE e \in vol : e.ticker = tk).value
    ELSE default

\* data[data['ticker'] == ticker].sort_values('bucket_start').iloc[-1]
LatestBar(data, tk) ==
    CHOOSE b \in data : b.ticker = tk /\ \A c \in data : c.ticker = tk => c.bucket_start <= b.bucket_start

HasTicker(data, tk) == \E b \in data : b.ticker = tk

\* the operator dispatch of _evaluate_condition on a non-NaN field value:
\* "true", "false", or "raise" when value[0] is taken of a scalar
Compare(op, fv, value) ==
    CASE op = ">" -> IF fv > value[1] THEN "true" ELSE "false"
      [] op = "<" -> IF fv < value[1] THEN "true" ELSE "false"
      [] op = ">=" -> IF fv >= value[1] THEN "true" ELSE "false"
      [] op = "<=" -> IF fv <= value[1] THEN "true" ELSE "false"
      [] op = "==" -> IF fv = value[1] THEN "true" ELSE "false"
      [] op = "!=" -> IF fv # value[1] THEN "true" ELSE "false"
      [] op = "between" ->
            IF Len(value) < 2 THEN "raise"
            ELSE IF value[1] <= fv /\ fv <= value[2] THEN "true" ELSE "false"
      [] op = "outside" ->
            IF Len(value) < 2 THEN "raise"
            ELSE IF fv < value[1] \/ fv > value[2] THEN "true" ELSE "false"
      [] op = "cross_above" -> IF fv > value[1] THEN "true" ELSE "false"
      [] op = "cross_below" -> IF fv < value[1] THEN "true" ELSE "false"
      [] OTHER -> "false"

\* AlertRule._evaluate_condition
EvaluateCondition(c, tk, bar, vol) ==
    IF c.field = "volatility" /\ vol # {}
    THEN LET fv == VolGet(vol, tk, 0)
         IN IF fv = NaN THEN "false" ELSE Compare(c.operator, fv, c.value)
    ELSE IF c.field \in BarColumns
    THEN LET fv == bar[c.field]
         IN IF fv = NaN THEN "false" ELSE Compare(c.operator, fv, c.value)
    ELSE "false"

\* the loop over self.conditions: the first condition that is not true decides
RECURSIVE EvalConditionsMutantAny(_, _, _, _, _)
EvalConditionsMutantAny(conds, i, tk, bar, vol) ==
    IF i > Len(conds) THEN (IF conds = <<>> THEN "true" ELSE "false")
    ELSE LET r == EvaluateCondition(conds[i], tk, bar, vol)
         IN IF r = "false" THEN EvalConditionsMutantAny(conds, i + 1, tk, bar, vol) ELSE r

RECURSIVE EvalConditions(_, _, _, _, _)
EvalConditions(conds, i, tk, bar, vol) ==
    IF i > Len(conds) THEN "true"
    ELSE LET r == EvaluateCondition(conds[i], tk, bar, vol)
         IN IF r = "true" THEN EvalConditions(conds, i + 1, tk, bar, vol) ELSE r

\* the cooldown test of AlertRule.evaluate
CooldownActiveMutantNever(rule, t) == FALSE

CooldownActive(rule, t) ==
    /\ rule.last_triggered # None
    /\ t - rule.last_triggered < rule.cooldown_minutes

\* AlertRule.evaluate: "true", "false" or "raise"
Evaluate(rule, data, vol, t) ==
    IF ~rule.enabled THEN "false"
    ELSE IF CooldownActive(rule, t) THEN "false"
    ELSE IF ~HasTicker(data, rule.ticker) THEN "false"
    ELSE EvalConditions(rule.conditions, 1, rule.ticker, LatestBar(data, rule.ticker), vol)

\* AlertRule.trigger
Trigger(rule, t) == [rule EXCEPT !.last_triggered = t]

(* ------------------------------------------------------------------ *)
(* Alert engine: alerts/engine.py                                      *)
(* ------------------------------------------------------------------ *)

\* the body of the for loop of process_alerts, with its try/except:
\* st.rules is the rule collection in dict order, st.alerts the list
\* triggered_alerts, st.errors the calls of log_rule_error, st.logged the
\* calls of log_alert_triggered that completed, st.propagated an exception
\* that left process_alerts.  json_ok = FALSE: json.dumps of the trigger
\* data raises inside log_alert_triggered.
RuleStepMutantNoTry(st, i, data, vol, t, json_ok) ==
    LET rule == st.rules[i]
        out == Evaluate(rule, data, vol, t)
        seen == [st EXCEPT !.evaluated = Append(@, rule.rule_id)]
    IN IF out = "true"
       THEN LET fired == [seen EXCEPT !.rules[i] = Trigger(rule, t),
                                      !.alerts = Append(@, rule.rule_id)]
            IN IF json_ok
               THEN [fired EXCEPT !.logged = Append(@, rule.rule_id)]
               ELSE [fired EXCEPT !.propagated = TRUE]
       ELSE IF out = "raise"
       THEN [seen EXCEPT !.propagated = TRUE]
       ELSE seen

RuleStep(st, i, data, vol, t, json_ok) ==
    LET rule == st.rules[i]
        out == Evaluate(rule, data, vol, t)
        seen == [st EXCEPT !.evaluated = Append(@, rule.rule_id)]
    IN IF out = "true"
       THEN LET fired == [seen EXCEPT !.rules[i] = Trigger(rule, t),
                                      !.alerts = Append(@, rule.rule_id)]
            IN IF json_ok
               THEN [fired EXCEPT !.logged = Append(@, rule.rule_id)]
               ELSE [fired EXCEPT !.errors = Append(@, rule.rule_id)]
       ELSE IF out = "raise"
       THEN [seen EXCEPT !.errors = Append(@, rule.rule_id)]
       ELSE seen

\* for rule in self.rules.values(): an exception that escapes ends the loop
RECURSIVE ProcessFrom(_, _, _, _, _, _)
ProcessFrom(i, st, data, vol, t, json_ok) ==
    IF i > Len(st.rules) \/ st.propagated THEN st
    ELSE ProcessFrom(i + 1, RuleStep(st, i, data, vol, t, json_ok), data, vol, t, json_ok)

PassStart(rs) ==
    [rules |-> rs, alerts |-> <<>>, errors |-> <<>>, logged |-> <<>>,
     evaluated |-> <<>>, propagated |-> FALSE]

NoPass ==
    [ran |-> FALSE, data |-> {}, vol |-> {}, json_ok |-> TRUE, time |-> 0,
     before |-> <<>>, after |-> <<>>, alerts |-> <<>>, errors |-> <<>>,
     logged |-> <<>>, evaluated |-> <<>>, returned |-> FALSE]

\* the rule collections _load_rules can build: rule_id is the dict key
RuleSeqs ==
    { rs \in UNION { [1..n -> RuleCatalogue] : n \in 0..MaxRules } :
        \A i, j \in DOMAIN rs : rs[i].rule_id = rs[j].rule_id => i = j }

AlertInit ==
    /\ rules \in RuleSeqs
    /\ now = 0
    /\ last_pass = NoPass

AlertIdle ==
    /\ rules = <<>>
    /\ now = 0
    /\ last_pass = NoPass

\* datetime.now() advances between two passes
Tick ==
    /\ ~last_pass.ran
    /\ now < MaxTime
    /\ now' = now + 1
    /\ UNCHANGED <<rules, last_pass>>
    /\ alertFrame

\* AlertEngine.process_alerts(sentiment_data, volatility_data)
ProcessAlerts ==
    /\ ~last_pass.ran
    /\ \E data \in DataTables, vol \in VolTables, json_ok \in BOOLEAN :
        LET st == ProcessFrom(1, PassStart(rules), data, vol, now, json_ok)
        IN /\ rules' = st.rules
           /\ last_pass' = [ran |-> TRUE, data |-> data, vol |-> vol, json_ok |-> json_ok,
                            time |-> now, before |-> rules, after |-> st.rules,
                            alerts |-> st.alerts, errors |-> st.errors,
                            logged |-> st.logged, evaluated |-> st.evaluated,
                            returned |-> ~st.propagated]
           /\ UNCHANGED now
    /\ alertFrame

\* the caller is done with the list process_alerts returned
PassDone ==
    /\ last_pass.ran
    /\ last_pass' = NoPass
    /\ UNCHANGED <<rules, now>>
    /\ alertFrame

AlertNext == Tick \/ ProcessAlerts \/ PassDone

(* ------------------------------------------------------------------ *)
(* Labeler: backtest/label.py                                          *)
(* ------------------------------------------------------------------ *)

MaxWeek == 2
MaxClose == 2
MaxHorizon == 2

LabelTickers == {"A", "B"}
Weeks == 0..MaxWeek
Closes == 1..MaxClose
CloseVals == Closes \cup {NaN}
Horizons == 1..MaxHorizon

\* sort order of the ticker column
TickerRank(tk) == IF tk = "A" THEN 1 ELSE 2

\* pd.merge(sent_df, prices_weekly, on=['ticker', 'bucket_start'], how='inner'):
\* prices is the resampled table, one row per ticker and weekly bucket, close
\* NaN for a bucket without an observation
Merge(bars, prices) ==
    { [ticker |-> k.ticker, bucket_start |-> k.bucket_start,
       close |-> prices[k.ticker][k.bucket_start]] :
         k \in { x \in bars : x.ticker \in DOMAIN prices
                              /\ x.bucket_start \in DOMAIN prices[x.ticker] } }

RowBefore(a, b) ==
    \/ TickerRank(a.ticker) < TickerRank(b.ticker)
    \/ (a.ticker = b.ticker /\ a.bucket_start < b.bucket_start)

\* df.sort_values(['ticker', 'bucket_start'])
RECURSIVE SortRows(_)
SortRows(rows) ==
    IF rows = {} THEN <<>>
    ELSE LET first == CHOOSE r \in rows : \A o \in rows \ {r} : RowBefore(r, o)
         IN <<first>> \o SortRows(rows \ {first})

\* df.groupby('ticker')['close'].shift(-horizon_bars) at position i of the
\* sorted table: the close h rows further down in the same ticker group
ShiftCloseMutantNoGroup(sorted, i, h) ==
    IF i + h <= Len(sorted) THEN sorted[i + h].close ELSE NaN

ShiftClose(sorted, i, h) ==
    IF i + h <= Len(sorted) /\ sorted[i + h].ticker = sorted[i].ticker
    THEN sorted[i + h].close
    ELSE NaN

\* (close_fwd / close) - 1 as the exact fraction num/den, NaN when an operand is NaN
ForwardReturn(close_fwd, close) ==
    IF close_fwd = NaN \/ close = NaN
    THEN [nan |-> TRUE, num |-> 0, den |-> 1]
    ELSE [nan |-> FALSE, num |-> close_fwd - close, den |-> close]

\* (df['r_fwd'] > 0).astype(int); a comparison with NaN is False
LabelOfMutantGe(r) == IF ~r.nan /\ r.num >= 0 THEN 1 ELSE 0

LabelOf(r) == IF ~r.nan /\ r.num > 0 THEN 1 ELSE 0

\* _compute_labels: shift, return, label, then dropna(subset=['r_fwd'])
ComputeLabels(df, h) ==
    LET sorted == SortRows(df)
        labelled == { [ticker |-> sorted[i].ticker,
                       bucket_start |-> sorted[i].bucket_start,
                       close |-> sorted[i].close,
                       close_fwd |-> ShiftClose(sorted, i, h),
                       r_fwd |-> ForwardReturn(ShiftClose(sorted, i, h), sorted[i].close),
                       y |-> LabelOf(ForwardReturn(ShiftClose(sorted, i, h), sorted[i].close))] :
                          i \in DOMAIN sorted }
    IN { r \in labelled : ~r.r_fwd.nan }

\* sentiment bars read from the CSV: ticker A any set of weekly buckets,
\* ticker B the first k buckets
BarKeySets ==
    { {[ticker |-> "A", bucket_start |-> w] : w \in wa}
        \cup {[ticker |-> "B", bucket_start |-> w] : w \in 0..(k - 1)} :
            wa \in SUBSET Weeks, k \in 0..(MaxWeek + 1) }

\* weekly prices: ticker A any series, ticker B a flat series
PriceTables ==
    { [tk \in LabelTickers |-> IF tk = "A" THEN pa ELSE [w \in Weeks |-> cb]] :
        pa \in [Weeks -> CloseVals], cb \in Closes }

LabelIdle ==
    /\ sent_bars = {}
    /\ prices_weekly = <<>>
    /\ horizon_bars = 1
    /\ training_set = {}
    /\ label_pc = "idle"

LabelInit ==
    /\ sent_bars \in BarKeySets
    /\ prices_weekly \in PriceTables
    /\ horizon_bars \in Horizons
    /\ training_set = {}
    /\ label_pc = "start"

\* make_labels from the merge on: an empty merge returns before
\* _compute_labels and leaves data/training_set.csv alone
MakeLabels ==
    /\ label_pc = "start"
    /\ LET joined == Merge(sent_bars, prices_weekly)
       IN IF joined = {}
          THEN /\ training_set' = training_set
               /\ label_pc' = "empty"
          ELSE /\ training_set' = ComputeLabels(joined, horizon_bars)
               /\ label_pc' = "done"
    /\ UNCHANGED <<sent_bars, prices_weekly, horizon_bars>>
    /\ labelFrame

LabelNext == MakeLabels

(* ------------------------------------------------------------------ *)
(* Bucket aggregator: features/aggregate.py, and the price resampling  *)
(* of backtest/label.py it has to agree with                           *)
(* ------------------------------------------------------------------ *)

\* instants are counted in ticks of 1/TicksPerDay day from a Monday 00:00 UTC
TicksPerDay == 2
MaxStamp == 3
MaxArticles == 2

Stamps == 0..MaxStamp
Windows == {"W-MON", "W-SUN", "1D"}

\* 'W' in window
IsWeekly(w) == w \in {"W-MON", "W-SUN"}

\* the weekday (Monday = 0) on which a weekly period of frequency w ends
AnchorDay(w) == IF w = "W-MON" THEN 0 ELSE 6

\* _apply_bucket_floor: dt.to_period(window).dt.start_time for a weekly
\* window (the period ends on the anchor day and starts the day after the
\* previous one), dt.floor(window) otherwise
BucketFloor(t, w) ==
    LET d == t \div TicksPerDay
    IN IF IsWeekly(w)
       THEN (d - ((d - AnchorDay(w) - 1) % 7)) * TicksPerDay
       ELSE d * TicksPerDay

\* the bin label of resample('W-MON', label='left', closed='left'): bins run
\* from a Monday 00:00 to the next and carry their left edge
ResampleBin(t) ==
    LET d == t \div TicksPerDay
    IN (d - (d % 7)) * TicksPerDay

\* one step of the groupby(['ticker', 'bucket_start']) of _aggregate_buckets:
\* the row joins the group of its key, count = len(scores)
AddToGroupMutantBucketOnly(bars, tk, b) ==
    IF \E g \in bars : g.bucket_start = b
    THEN { IF g.bucket_start = b THEN [g EXCEPT !.count = @ + 1] ELSE g : g \in bars }
    ELSE bars \cup {[ticker |-> tk, bucket_start |-> b, count |-> 1]}

AddToGroup(bars, tk, b) ==
    IF \E g \in bars : g.ticker = tk /\ g.bucket_start = b
    THEN { IF g.ticker = tk /\ g.bucket_start = b THEN [g EXCEPT !.count = @ + 1] ELSE g :
             g \in bars }
    ELSE bars \cup {[ticker |-> tk, bucket_start |-> b, count |-> 1]}

\* _apply_bucket_floor followed by _aggregate_buckets over the rows i..Len(df)
RECURSIVE AggregateBuckets(_, _, _, _)
AggregateBuckets(df, i, w, bars) ==
    IF i > Len(df) THEN bars
    ELSE AggregateBuckets(df, i + 1, w,
                          AddToGroup(bars, df[i].ticker, BucketFloor(df[i].published_at, w)))

\* _resample_prices_weekly: per ticker and weekly bin the last close observed
ResamplePricesWeekly(obs) ==
    { [ticker |-> o.ticker, bucket_start |-> ResampleBin(o.timestamp), close |-> o.close] :
        o \in { x \in obs : \A y \in obs :
                    (y.ticker = x.ticker /\ ResampleBin(y.timestamp) = ResampleBin(x.timestamp))
                        => y.timestamp <= x.timestamp } }

\* the inner join of make_labels on (ticker, bucket_start)
MergeOnBucket(bars, prices) ==
    { [ticker |-> b.ticker, bucket_start |-> b.bucket_start, count |-> b.count,
       close |-> p.close] :
        <<b, p>> \in { bp \in bars \X prices :
                          bp[1].ticker = bp[2].ticker /\ bp[1].bucket_start = bp[2].bucket_start } }

ArticleRows == [ticker : LabelTickers, published_at : Stamps]
ArticleTables == UNION { [1..n -> ArticleRows] : n \in 0..MaxArticles }
PriceObservations == [ticker : LabelTickers, timestamp : Stamps, close : {1}]

AggIdle ==
    /\ articles = <<>>
    /\ window = "W-MON"
    /\ price_obs = {}
    /\ sentiment_bars = {}
    /\ prices_resampled = {}
    /\ merged = {}
    /\ agg_done = {}

AggInit ==
    /\ articles \in ArticleTables
    /\ window \in Windows
    /\ \E o \in PriceObservations : price_obs = {o}
    /\ sentiment_bars = {}
    /\ prices_resampled = {}
    /\ merged = {}
    /\ agg_done = {}

\* build_sentiment_bars from the flooring on (an empty table returns early)
BuildSentimentBars ==
    /\ "bars" \notin agg_done
    /\ sentiment_bars' = AggregateBuckets(articles, 1, window, {})
    /\ agg_done' = agg_done \cup {"bars"}
    /\ UNCHANGED <<articles, window, price_obs, prices_resampled, merged>>
    /\ aggFrame

\* make_labels: the resampling of the loaded prices
ResamplePrices ==
    /\ "prices" \notin agg_done
    /\ prices_resampled' = ResamplePricesWeekly(price_obs)
    /\ agg_done' = agg_done \cup {"prices"}
    /\ UNCHANGED <<articles, window, price_obs, sentiment_bars, merged>>
    /\ aggFrame

\* make_labels: the merge of the bars with the resampled prices
MergeBars ==
    /\ agg_done = {"bars", "prices"}
    /\ merged' = MergeOnBucket(sentiment_bars, prices_resampled)
    /\ agg_done' = agg_done \cup {"merge"}
    /\ UNCHANGED <<articles, window, price_obs, sentiment_bars, prices_resampled>>
    /\ aggFrame

AggNext == BuildSentimentBars \/ ResamplePrices \/ MergeBars

(* ------------------------------------------------------------------ *)
(* Bar persistence: database.py, table sentiment_bars                  *)
(* ------------------------------------------------------------------ *)

MaxDfRows == 2

\* the callers that can save at the same time: the scheduler's aggregation
\* job and one more run of it (or migrate_from_csv)
SaveJobs == {1, 2}

\* the rows a frame of bars can hold; bucket_start is a week number here and
\* a Timestamp in the frame
BarFrameRows ==
    { [ticker |-> "A", bucket_start |-> 0, mean_sent |-> 1],
      [ticker |-> "A", bucket_start |-> 0, mean_sent |-> 2],
      [ticker |-> "B", bucket_start |-> 1, mean_sent |-> 1] }

BarFrames == UNION { [1..n -> BarFrameRows] : n \in 0..MaxDfRows }

\* df_insert['bucket_start'].astype(str) of the UTC Timestamp of the Tuesday
\* that starts week b
BucketText(b) ==
    "2024-01-" \o (IF 2 + 7 * b < 10 THEN "0" ELSE "") \o ToString(2 + 7 * b)
               \o " 00:00:00+00:00"

\* the tuple bound to the placeholders of the INSERT
InsertTuple(row) ==
    [ticker |-> row.ticker, bucket_start |-> BucketText(row.bucket_start),
     mean_sent |-> row.mean_sent]

\* INSERT OR REPLACE under UNIQUE(ticker, bucket_start): the rows that
\* conflict with the new one are deleted, then the new row is inserted
InsertOrReplaceMutantAppend(table, r) ==
    table \cup {r}

InsertOrReplace(table, r) ==
    { x \in table : ~(x.ticker = r.ticker /\ x.bucket_start = r.bucket_start) } \cup {r}

IdleSave == [pc |-> "idle", df |-> <<>>, i |-> 1, executed |-> {}]

DbIdle ==
    /\ db_rows = {}
    /\ tx_rows = {}
    /\ db_lock = 0
    /\ saves = [j \in SaveJobs |-> IdleSave]

DbInit == DbIdle

\* save_sentiment_bars up to the loop: an empty frame returns 0 at once
SaveBegin(j) ==
    /\ saves[j].pc = "idle"
    /\ \E df \in BarFrames :
          saves' = [saves EXCEPT ![j] =
                      IF df = <<>> THEN IdleSave
                      ELSE [pc |-> "saving", df |-> df, i |-> 1, executed |-> {}]]
    /\ UNCHANGED <<db_rows, tx_rows, db_lock>>
    /\ dbFrame

\* cursor.execute of row i: the first write of the transaction takes the
\* write lock of the database file, which is held until the commit
ExecuteRow(j) ==
    /\ saves[j].pc = "saving"
    /\ saves[j].i <= Len(saves[j].df)
    /\ db_lock \in {0, j}
    /\ db_lock' = j
    /\ tx_rows' = InsertOrReplace(tx_rows, InsertTuple(saves[j].df[saves[j].i]))
    /\ saves' = [saves EXCEPT ![j].i = @ + 1, ![j].executed = @ \cup {saves[j].i}]
    /\ UNCHANGED db_rows
    /\ dbFrame

\* cursor.execute of row i while another connection holds the write lock and
\* the busy timeout runs out: sqlite3.OperationalError, caught, row skipped
ExecuteLocked(j) ==
    /\ saves[j].pc = "saving"
    /\ saves[j].i <= Len(saves[j].df)
    /\ db_lock \notin {0, j}
    /\ saves' = [saves EXCEPT ![j].i = @ + 1]
    /\ UNCHANGED <<db_rows, tx_rows, db_lock>>
    /\ dbFrame

\* the end of the with block of get_db: conn.commit() and conn.close()
Commit(j) ==
    /\ saves[j].pc = "saving"
    /\ saves[j].i > Len(saves[j].df)
    /\ IF db_lock = j
       THEN /\ db_rows' = tx_rows
            /\ db_lock' = 0
       ELSE UNCHANGED <<db_rows, db_lock>>
    /\ saves' = [saves EXCEPT ![j] = IdleSave]
    /\ UNCHANGED tx_rows
    /\ dbFrame

DbNext ==
    \E j \in SaveJobs : SaveBegin(j) \/ ExecuteRow(j) \/ ExecuteLocked(j) \/ Commit(j)

(* ------------------------------------------------------------------ *)
(* Model artifact: models/prob_model.py                                *)
(* ------------------------------------------------------------------ *)

\* the number of write calls pickle.dump needs for one artifact
ArtifactChunks == 2
MaxTrainings == 2

Readers == {"api", "alert_job"}

NoLoad == [pc |-> "idle", result |-> "none", version |-> 0]

ArtifactIdle ==
    /\ model_file = [exists |-> FALSE, version |-> 0, written |-> 0]
    /\ trainer = [pc |-> "idle", trained |-> 0]
    /\ loads = [r \in Readers |-> NoLoad]

\* no artifact yet, or the complete artifact of an earlier training
ArtifactInit ==
    /\ model_file \in { [exists |-> FALSE, version |-> 0, written |-> 0],
                        [exists |-> TRUE, version |-> 0, written |-> ArtifactChunks] }
    /\ trainer = [pc |-> "idle", trained |-> 0]
    /\ loads = [r \in Readers |-> NoLoad]

\* train_and_save up to model.fit
Fit ==
    /\ trainer.pc = "idle"
    /\ trainer.trained < MaxTrainings
    /\ trainer' = [pc |-> "fitted", trained |-> trainer.trained + 1]
    /\ UNCHANGED <<model_file, loads>>
    /\ artifactFrame

\* open(model_path, 'wb'): the file is created or truncated in place
OpenWrite ==
    /\ trainer.pc = "fitted"
    /\ model_file' = [exists |-> TRUE, version |-> trainer.trained, written |-> 0]
    /\ trainer' = [trainer EXCEPT !.pc = "dumping"]
    /\ UNCHANGED loads
    /\ artifactFrame

\* pickle.dump: one write that reaches the file
DumpChunk ==
    /\ trainer.pc = "dumping"
    /\ model_file.written < ArtifactChunks
    /\ model_file' = [model_file EXCEPT !.written = @ + 1]
    /\ UNCHANGED <<trainer, loads>>
    /\ artifactFrame

\* the end of the with block: the file is closed, train_and_save returns
CloseWrite ==
    /\ trainer.pc = "dumping"
    /\ model_file.written = ArtifactChunks
    /\ trainer' = [trainer EXCEPT !.pc = "idle"]
    /\ UNCHANGED <<model_file, loads>>
    /\ artifactFrame

\* ProbModel.load: open(model_path, 'rb')
OpenRead(r) ==
    /\ loads[r].pc = "idle"
    /\ loads' = [loads EXCEPT ![r] =
                    IF model_file.exists
                    THEN [pc |-> "open", result |-> "none", version |-> 0]
                    ELSE [pc |-> "idle", result |-> "FileNotFoundError", version |-> 0]]
    /\ UNCHANGED <<model_file, trainer>>
    /\ artifactFrame

\* ProbModel.load: pickle.load of what the file holds at that moment
PickleLoad(r) ==
    /\ loads[r].pc = "open"
    /\ loads' = [loads EXCEPT ![r] =
                    IF model_file.written = ArtifactChunks
                    THEN [pc |-> "idle", result |-> "model", version |-> model_file.version]
                    ELSE IF model_file.written = 0
                    THEN [pc |-> "idle", result |-> "EOFError", version |-> model_file.version]
                    ELSE [pc |-> "idle", result |-> "UnpicklingError",
                          version |-> model_file.version]]
    /\ UNCHANGED <<model_file, trainer>>
    /\ artifactFrame

ArtifactNext ==
    \/ Fit
    \/ OpenWrite
    \/ DumpChunk
    \/ CloseWrite
    \/ \E r \in Readers : OpenRead(r) \/ PickleLoad(r)

(* ------------------------------------------------------------------ *)
(* Feature selection of the probability model: models/prob_model.py    *)
(* ------------------------------------------------------------------ *)

MaxCols == 3

ColumnNames == {"mean_sent", "std_sent", "count", "extra_col"}
CellVals == {0, 1, NaN}

\* the column orders a model was fitted with; <<>> is a model that was never
\* fitted (feature_cols is None)
FeatureOrders ==
    { <<"mean_sent", "std_sent">>,
      <<"std_sent", "mean_sent">>,
      <<"count", "mean_sent", "std_sent">> }

\* FEATURE_PATTERN.match(col)
PatternMatch(name) == name \in {"mean_sent", "std_sent", "count"}

\* one-row input tables: a sequence of named columns, names distinct
InputTables ==
    UNION { { t \in [1..n -> [name : ColumnNames, value : CellVals]] :
                \A i, j \in 1..n : t[i].name = t[j].name => i = j } : n \in 0..MaxCols }

\* the value of column name in table T (the column exists)
Cell(T, name) == T[CHOOSE j \in DOMAIN T : T[j].name = name].value

HasColumn(T, name) == \E j \in DOMAIN T : T[j].name = name

\* DataFrame.fillna(0)
FillNa(T) == [i \in DOMAIN T |-> [T[i] EXCEPT !.value = IF @ = NaN THEN 0 ELSE @]]

\* _select_features: reindex(columns=feature_cols, fill_value=0) for a fitted
\* model, the columns matching FEATURE_PATTERN in input order otherwise
SelectFeaturesMutantPositional(X, fc) ==
    IF fc # <<>>
    THEN [i \in 1..Len(fc) |->
            [name |-> fc[i], value |-> IF i <= Len(X) THEN X[i].value ELSE 0]]
    ELSE FillNa(SelectSeq(X, LAMBDA c : PatternMatch(c.name)))

SelectFeatures(X, fc) ==
    IF fc # <<>>
    THEN [i \in 1..Len(fc) |->
            [name |-> fc[i], value |-> IF HasColumn(X, fc[i]) THEN Cell(X, fc[i]) ELSE 0]]
    ELSE FillNa(SelectSeq(X, LAMBDA c : PatternMatch(c.name)))

\* self.model.predict_proba(X_sel)[:, 1]: the classifier weighs the columns
\* by their position, whatever their names
RECURSIVE ClassifierProba(_)
ClassifierProba(T) ==
    IF T = <<>> THEN 0
    ELSE Len(T) * T[Len(T)].value + ClassifierProba(SubSeq(T, 1, Len(T) - 1))

\* sklearn's NotFittedError of a model that was never fitted
NotFitted == -1

\* X2 holds the columns of X in some order, plus columns outside feature_cols
IsVariant(X, X2, fc) ==
    /\ Range(X) \subseteq Range(X2)
    /\ \A c \in Range(X2) \ Range(X) : c.name \notin Range(fc)

FeatIdle ==
    /\ feature_cols = <<>>
    /\ X_in = <<>>
    /\ X_sel = <<>>
    /\ proba = 0
    /\ X_alt = <<>>
    /\ proba_alt = 0
    /\ feat_pc = "idle"

FeatInit ==
    /\ feature_cols \in FeatureOrders \cup {<<>>}
    /\ X_in \in InputTables
    /\ X_sel = <<>>
    /\ proba = 0
    /\ X_alt = <<>>
    /\ proba_alt = 0
    /\ feat_pc = "start"

\* predict_proba(X)
PredictProba ==
    /\ feat_pc = "start"
    /\ X_sel' = FillNa(SelectFeatures(X_in, feature_cols))
    /\ proba' = IF feature_cols = <<>> THEN NotFitted ELSE ClassifierProba(X_sel')
    /\ feat_pc' = "predicted"
    /\ UNCHANGED <<feature_cols, X_in, X_alt, proba_alt>>
    /\ featFrame

\* predict_proba on the same row with its columns permuted and unrelated
\* columns injected
PredictVariant ==
    /\ feat_pc = "predicted"
    /\ \E X2 \in InputTables :
          /\ IsVariant(X_in, X2, feature_cols)
          /\ X_alt' = X2
          /\ proba_alt' = IF feature_cols = <<>> THEN NotFitted
                          ELSE ClassifierProba(FillNa(SelectFeatures(X2, feature_cols)))
    /\ feat_pc' = "compared"
    /\ UNCHANGED <<feature_cols, X_in, X_sel, proba>>
    /\ featFrame

FeatNext == PredictProba \/ PredictVariant

(* ------------------------------------------------------------------ *)
(* Single-split backtest: backtest/backtester.py                       *)
(* ------------------------------------------------------------------ *)

MaxBtRows == 2

\* probabilities are in percent, returns and costs in basis points
BpsPerOne == 10000
ProbaVals == {40, 62, 70}
ThresholdsLong == {62}
ReturnsBps == {-5000, 0, 2500}
CostsBps == {0, 10}

BtKeys ==
    [ticker : {"A"}, bucket_start : 0..(MaxBtRows - 1)]
        \cup {[ticker |-> "B", bucket_start |-> 0]}

\* a labeled row; p_model is the probability the model predicts from the
\* row's features, y the label the labeler derived from r_fwd
BtRows ==
    { [ticker |-> k.ticker, bucket_start |-> k.bucket_start, p_model |-> p,
       r_fwd |-> r, y |-> IF r > 0 THEN 1 ELSE 0] :
        k \in BtKeys, p \in ProbaVals, r \in ReturnsBps }

\* labeled tables in any row order, one row per (ticker, bucket_start)
BtTables ==
    UNION { { t \in [1..n -> BtRows] :
                \A i, j \in 1..n :
                    (t[i].ticker = t[j].ticker /\ t[i].bucket_start = t[j].bucket_start)
                        => i = j } : n \in 1..MaxBtRows }

RECURSIVE Gcd(_, _)
Gcd(a, b) == IF b = 0 THEN a ELSE Gcd(b, a % b)

\* a float as an exact fraction in lowest terms (den > 0)
Frac(num, den) ==
    LET g == Gcd(IF num < 0 THEN -num ELSE num, den)
    IN [num |-> num \div g, den |-> den \div g]

\* model.predict_proba(X) over the rows of the table as it was passed in
PredictAll(df) == [i \in DOMAIN df |-> df[i].p_model]

\* _compute_pnl for one row: long when P exceeds the threshold
ComputePnlMutantGe(row, threshold, costs) ==
    IF row.P >= threshold THEN row.r_fwd - costs ELSE 0

ComputePnl(row, threshold, costs) ==
    IF row.P > threshold THEN row.r_fwd - costs ELSE 0

\* (1 + df['pnl']).cumprod() up to row i
RECURSIVE CumProd(_, _)
CumProd(pnl, i) ==
    IF i = 0 THEN Frac(1, 1)
    ELSE LET prev == CumProd(pnl, i - 1)
             f == Frac(BpsPerOne + pnl[i], BpsPerOne)
         IN Frac(prev.num * f.num, prev.den * f.den)

\* run: predict, sort by (ticker, bucket_start), attach P by position,
\* compute pnl and equity
RunBacktest(df, threshold, costs) ==
    LET P == PredictAll(df)
        sorted == SortRows(Range(df))
        withP == [i \in DOMAIN sorted |->
                    [ticker |-> sorted[i].ticker, bucket_start |-> sorted[i].bucket_start,
                     p_model |-> sorted[i].p_model, r_fwd |-> sorted[i].r_fwd,
                     y |-> sorted[i].y, P |-> P[i]]]
        pnl == [i \in DOMAIN withP |-> ComputePnl(withP[i], threshold, costs)]
    IN [i \in DOMAIN withP |->
          [ticker |-> withP[i].ticker, bucket_start |-> withP[i].bucket_start,
           p_model |-> withP[i].p_model, r_fwd |-> withP[i].r_fwd, y |-> withP[i].y,
           P |-> withP[i].P, pnl |-> pnl[i], equity |-> CumProd(pnl, i)]]

BtIdle ==
    /\ bt_df = <<>>
    /\ threshold_long = 62
    /\ costs_bps = 0
    /\ bt_out = <<>>
    /\ bt_pc = "idle"

BtInit ==
    /\ bt_df \in BtTables
    /\ threshold_long \in ThresholdsLong
    /\ costs_bps \in CostsBps
    /\ bt_out = <<>>
    /\ bt_pc = "start"

\* backtester.run
RunBt ==
    /\ bt_pc = "start"
    /\ bt_out' = RunBacktest(bt_df, threshold_long, costs_bps)
    /\ bt_pc' = "done"
    /\ UNCHANGED <<bt_df, threshold_long, costs_bps>>
    /\ btFrame

BtNext == RunBt

(* ------------------------------------------------------------------ *)
(* Walk-forward backtest: backtest/walk_forward.py                     *)
(* ------------------------------------------------------------------ *)

MaxWfRows == 8

\* cv=3 of the CalibratedClassifierCV inside ProbModel
CvFolds == 3

\* train_size and step_size in percent, min_train_samples in rows
TrainPcts == {60, 75}
StepPcts == {10, 20, 25}
MinTrainSamples == {3, 7}

\* the y column of the table after sort_values('bucket_start'); row k of the
\* table (0-based) is wf_y[k + 1]
LabelColumns == UNION { [1..n -> {0, 1}] : n \in 1..MaxWfRows }

\* int(n * fraction)
IntPct(n, pct) == (n * pct) \div 100

\* the labels of the rows lo..hi-1 of df.iloc[lo:hi]
Slice(y, lo, hi) == { y[k + 1] : k \in lo..(hi - 1) }

CountOf(y, lo, hi, c) == Cardinality({ k \in lo..(hi - 1) : y[k + 1] = c })

\* model.fit(X_train, y_train): the calibrated classifier raises ValueError
\* when a class has fewer than cv members, and the logistic regression inside
\* it when there is one class only
FitOutcome(y, lo, hi) ==
    IF \A c \in {0, 1} : CountOf(y, lo, hi, c) >= CvFolds THEN "fitted" ELSE "ValueError"

\* the auc of _calculate_fold_metrics: roc_auc_score when y_true has both
\* classes, the constant 0.5 otherwise
Half == [kind |-> "constant", num |-> 1, den |-> 2]
RocAuc == [kind |-> "roc_auc_score", num |-> 0, den |-> 1]

FoldAuc(y, lo, hi) ==
    IF Cardinality(Slice(y, lo, hi)) > 1 THEN RocAuc ELSE Half

\* the test of run that rejects a table too small to train on
InsufficientDataMutantNever(initial_train_end, min_train) == FALSE

InsufficientData(initial_train_end, min_train) == initial_train_end < min_train

Min2(a, b) == IF a < b THEN a ELSE b
Max2(a, b) == IF a > b THEN a ELSE b

\* the while loop of run from train_end on; st collects self.results, the
\* number of fits and the outcome
RECURSIVE WalkFrom(_, _, _, _, _, _)
WalkFrom(y, train_end, step, window_size, expanding, st) ==
    LET n == Len(y)
        test_end == Min2(train_end + step, n)
        train_lo == IF expanding THEN 0 ELSE Max2(0, train_end - window_size)
    IN IF ~(train_end < n - 1) \/ test_end <= train_end
       THEN [st EXCEPT !.ret = "ok"]
       ELSE IF FitOutcome(y, train_lo, train_end) = "ValueError"
       THEN [st EXCEPT !.ret = "ValueError", !.fits = @ + 1,
                       !.failed = <<train_lo, train_end, test_end>>]
       ELSE WalkFrom(y, test_end, step, window_size, expanding,
                [st EXCEPT !.fits = @ + 1,
                           !.results = Append(@, [iteration |-> Len(st.results),
                                                  train_lo |-> train_lo,
                                                  train_end |-> train_end,
                                                  test_end |-> test_end,
                                                  auc |-> FoldAuc(y, train_end, test_end)])])

\* WalkForwardBacktester.run
RunWalkForward(y, train_pct, step_pct, min_train, expanding, old_results) ==
    LET n == Len(y)
        initial_train_end == IntPct(n, train_pct)
        step == IntPct(n, step_pct)
    IN IF InsufficientData(initial_train_end, min_train)
       THEN [ret |-> "Insufficient data", fits |-> 0, failed |-> <<>>,
             results |-> old_results, reset |-> FALSE]
       ELSE WalkFrom(y, initial_train_end, step, IntPct(n, train_pct), expanding,
                     [ret |-> "running", fits |-> 0, failed |-> <<>>,
                      results |-> <<>>, reset |-> TRUE])

\* a fold left in self.results by an earlier call
StaleFold ==
    [iteration |-> 0, train_lo |-> 0, train_end |-> 6, test_end |-> 8, auc |-> RocAuc]

NoCall == [ret |-> "none", fits |-> 0, failed |-> <<>>, reset |-> FALSE]

WalkIdle ==
    /\ wf_y = <<>>
    /\ wf_params = [train_pct |-> 60, step_pct |-> 10, min_train |-> 3, expanding |-> TRUE]
    /\ wf_results = <<>>
    /\ wf_call = NoCall
    /\ wf_pc = "idle"

WalkInit ==
    /\ wf_y \in LabelColumns
    /\ wf_params \in [train_pct : TrainPcts, step_pct : StepPcts,
                      min_train : MinTrainSamples, expanding : BOOLEAN]
    /\ wf_results \in {<<>>, <<StaleFold>>}
    /\ wf_call = NoCall
    /\ wf_pc = "start"

\* one call of run on the backtester object
RunWalk ==
    /\ wf_pc = "start"
    /\ LET out == RunWalkForward(wf_y, wf_params.train_pct, wf_params.step_pct,
                                 wf_params.min_train, wf_params.expanding, wf_results)
       IN /\ wf_results' = out.results
          /\ wf_call' = [ret |-> out.ret, fits |-> out.fits, failed |-> out.failed,
                         reset |-> out.reset]
    /\ wf_pc' = "done"
    /\ UNCHANGED <<wf_y, wf_params>>
    /\ walkFrame

WalkNext == RunWalk

(* ------------------------------------------------------------------ *)
(* Training pipeline: main.py                                          *)
(* ------------------------------------------------------------------ *)

\* a file that does not exist; a file that exists holds 0 or more rows
Absent == -1

PipeFiles ==
    {"data/articles_raw.csv", "data/sentiment_bars.csv", "data/training_set.csv",
     "outputs/prob_model.pkl", "outputs/report.md"}

\* what the feeds can return: the week an article falls into (under a window
\* whose buckets the labeler shares) and the tickers whose aliases it mentions
FeedArticles ==
    { [id |-> 1, week |-> 0, tickers |-> {"A"}],
      [id |-> 2, week |-> 1, tickers |-> {"A"}],
      [id |-> 3, week |-> 0, tickers |-> {}] }

\* the weekly closes the price source can return; <<>> is no price data at all
PipePrices ==
    { <<>>,
      [tk \in {"A"} |-> [w \in 0..1 |-> 1]],
      [tk \in {"A"} |-> [w \in 0..1 |-> w + 1]] }

\* map_entities: one row per (article, ticker)
MapPairs(arts) ==
    { [id |-> a.id, ticker |-> tk, week |-> a.week] : <<a, tk>> \in
        { at \in arts \X LabelTickers : at[2] \in at[1].tickers } }

\* build_sentiment_bars: one bar per (ticker, bucket_start)
PipeBars(pairs) ==
    { [ticker |-> p.ticker, bucket_start |-> p.week] : p \in pairs }

NoFiles == [f \in PipeFiles |-> Absent]

PipeIdle ==
    /\ pipe_in = [fetched |-> {}, prices |-> <<>>, horizon_bars |-> 1]
    /\ pipe_df = {}
    /\ pipe_files = NoFiles
    /\ pipe_stages = <<>>
    /\ pipe_pc = "idle"

PipeInit ==
    /\ pipe_in \in [fetched : SUBSET FeedArticles, prices : PipePrices,
                    horizon_bars : Horizons]
    /\ pipe_df = {}
    /\ pipe_files = NoFiles
    /\ pipe_stages = <<>>
    /\ pipe_pc = "start"

\* step 1: fetch_rss, return when nothing was ingested
StageIngest ==
    /\ pipe_pc = "start"
    /\ pipe_df' = pipe_in.fetched
    /\ pipe_stages' = Append(pipe_stages, "ingest")
    /\ pipe_pc' = IF pipe_in.fetched = {} THEN "stopped" ELSE "ingested"
    /\ UNCHANGED <<pipe_in, pipe_files>>
    /\ pipeFrame

\* step 2: map_entities, return when no pair matched, else write the pairs
StageMap ==
    /\ pipe_pc = "ingested"
    /\ LET pairs == MapPairs(pipe_df)
       IN /\ pipe_df' = pairs
          /\ IF pairs = {}
             THEN /\ pipe_pc' = "stopped"
                  /\ UNCHANGED pipe_files
             ELSE /\ pipe_pc' = "mapped"
                  /\ pipe_files' = [pipe_files EXCEPT
                                      !["data/articles_raw.csv"] = Cardinality(pairs)]
    /\ pipe_stages' = Append(pipe_stages, "map")
    /\ UNCHANGED pipe_in
    /\ pipeFrame

\* step 3: build_sentiment_bars writes the bars it built; an empty article
\* table returns before the write; main returns when the bars are empty
StageAggregate ==
    /\ pipe_pc = "mapped"
    /\ LET bars == PipeBars(pipe_df)
       IN /\ pipe_df' = bars
          /\ IF pipe_df = {}
             THEN UNCHANGED pipe_files
             ELSE pipe_files' = [pipe_files EXCEPT
                                   !["data/sentiment_bars.csv"] = Cardinality(bars)]
          /\ pipe_pc' = IF bars = {} THEN "stopped" ELSE "aggregated"
    /\ pipe_stages' = Append(pipe_stages, "aggregate")
    /\ UNCHANGED pipe_in
    /\ pipeFrame

\* step 4: make_labels returns an empty table without writing when there are
\* no prices or the merge is empty, else it writes what _compute_labels
\* returned; main returns when the table is empty
StageLabel ==
    /\ pipe_pc = "aggregated"
    /\ LET joined == IF pipe_in.prices = <<>> THEN {} ELSE Merge(pipe_df, pipe_in.prices)
           labelled == ComputeLabels(joined, pipe_in.horizon_bars)
       IN IF joined = {}
          THEN /\ pipe_df' = {}
               /\ pipe_pc' = "stopped"
               /\ UNCHANGED pipe_files
          ELSE /\ pipe_df' = labelled
               /\ pipe_files' = [pipe_files EXCEPT
                                   !["data/training_set.csv"] = Cardinality(labelled)]
               /\ pipe_pc' = IF labelled = {} THEN "stopped" ELSE "labelled"
    /\ pipe_stages' = Append(pipe_stages, "label")
    /\ UNCHANGED pipe_in
    /\ pipeFrame

\* step 5: ProbModel.train_and_save; the fit can raise on the data it gets,
\* which ends main with the exception
StageTrain ==
    /\ pipe_pc = "labelled"
    /\ \E fit_ok \in BOOLEAN :
          IF fit_ok
          THEN /\ pipe_files' = [pipe_files EXCEPT
                                   !["outputs/prob_model.pkl"] = pipe_files["data/training_set.csv"]]
               /\ pipe_pc' = "trained"
          ELSE /\ pipe_pc' = "raised"
               /\ UNCHANGED pipe_files
    /\ pipe_stages' = Append(pipe_stages, "train")
    /\ UNCHANGED <<pipe_in, pipe_df>>
    /\ pipeFrame

\* step 6: backtester.run on the training table, report written
StageBacktest ==
    /\ pipe_pc = "trained"
    /\ pipe_files' = [pipe_files EXCEPT !["outputs/report.md"] = Cardinality(pipe_df)]
    /\ pipe_stages' = Append(pipe_stages, "backtest")
    /\ pipe_pc' = "done"
    /\ UNCHANGED <<pipe_in, pipe_df>>
    /\ pipeFrame

PipeNext ==
    StageIngest \/ StageMap \/ StageAggregate \/ StageLabel \/ StageTrain \/ StageBacktest

(* ------------------------------------------------------------------ *)
(* Price loading of the labeler: backtest/label.py                     *)
(* ------------------------------------------------------------------ *)

MaxSymbols == 2

PriceSymbols == {"PETR4.SA", "SELIC"}

\* the indices that are never downloaded
NonTradeable == {"IPCA", "PIB", "SELIC"}

\* what yf.download does for a symbol: a table, an empty table, a table
\* without a Date/Datetime column, or an exception
DownloadOutcomes == {"data", "empty", "no_date_column", "raise"}

SymbolLists ==
    UNION { [1..n -> [sym : PriceSymbols, outcome : DownloadOutcomes]] :
              n \in 0..MaxSymbols }

\* the loop over the symbols from position i on; live collects the symbols
\* whose table was appended to prices_df_list
RECURSIVE DownloadFromMutantSkipRaise(_, _, _)
DownloadFromMutantSkipRaise(symbols, i, live) ==
    IF i > Len(symbols) THEN [raised |-> FALSE, live |-> live]
    ELSE IF symbols[i].sym \in NonTradeable
    THEN DownloadFromMutantSkipRaise(symbols, i + 1, live)
    ELSE IF symbols[i].outcome = "raise"
    THEN DownloadFromMutantSkipRaise(symbols, i + 1, live)
    ELSE IF symbols[i].outcome = "data"
    THEN DownloadFromMutantSkipRaise(symbols, i + 1, Append(live, symbols[i].sym))
    ELSE DownloadFromMutantSkipRaise(symbols, i + 1, live)

RECURSIVE DownloadFrom(_, _, _)
DownloadFrom(symbols, i, live) ==
    IF i > Len(symbols) THEN [raised |-> FALSE, live |-> live]
    ELSE IF symbols[i].sym \in NonTradeable
    THEN DownloadFrom(symbols, i + 1, live)
    ELSE IF symbols[i].outcome = "raise"
    THEN [raised |-> TRUE, live |-> live]
    ELSE IF symbols[i].outcome = "data"
    THEN DownloadFrom(symbols, i + 1, Append(live, symbols[i].sym))
    ELSE DownloadFrom(symbols, i + 1, live)

\* _load_demo_prices: the rows of data/demo_prices.csv, an empty table when
\* the file is not found
LoadDemoPrices(demo) ==
    IF demo = "missing" THEN [source |-> "empty", live |-> <<>>]
    ELSE [source |-> "demo", live |-> <<>>]

\* _load_price_data
LoadPriceData(import_ok, symbols, demo) ==
    IF ~import_ok THEN LoadDemoPrices(demo)
    ELSE LET d == DownloadFrom(symbols, 1, <<>>)
         IN IF ~d.raised /\ d.live # <<>>
            THEN [source |-> "live", live |-> d.live]
            ELSE LoadDemoPrices(demo)

PricesIdle ==
    /\ price_env = [import_ok |-> TRUE, symbols |-> <<>>, demo |-> "missing"]
    /\ prices_df = [source |-> "none", live |-> <<>>]
    /\ price_pc = "idle"

PricesInit ==
    /\ price_env \in [import_ok : BOOLEAN, symbols : SymbolLists, demo : {"missing", "rows"}]
    /\ prices_df = [source |-> "none", live |-> <<>>]
    /\ price_pc = "start"

\* make_labels: prices_df = _load_price_data(price_cfg)
LoadPrices ==
    /\ price_pc = "start"
    /\ prices_df' = LoadPriceData(price_env.import_ok, price_env.symbols, price_env.demo)
    /\ price_pc' = "loaded"
    /\ UNCHANGED price_env
    /\ pricesFrame

\* make_labels: an empty price table makes it return an empty table
CheckPrices ==
    /\ price_pc = "loaded"
    /\ price_pc' = IF prices_df.source = "empty" THEN "returned_empty" ELSE "resampling"
    /\ UNCHANGED <<price_env, prices_df>>
    /\ pricesFrame

PricesNext == LoadPrices \/ CheckPrices

(* ------------------------------------------------------------------ *)
(* Serving endpoints: api/app.py                                       *)
(* ------------------------------------------------------------------ *)

\* probabilities and thresholds in percent
ConfigThresholdLong == 62
ConfigThresholdShort == 38
DefaultProbUp == 50

ServeTickers == {"A", "B", "C"}

\* the rows data/sentiment_bars.csv can hold; mean_sent stands for the
\* features, and the model's probability for a row is its mean_sent
ServeRows ==
    { [ticker |-> "A", bucket_start |-> 0, mean_sent |-> 40],
      [ticker |-> "A", bucket_start |-> 1, mean_sent |-> 70],
      [ticker |-> "B", bucket_start |-> 0, mean_sent |-> 62] }

BarsFiles ==
    {[exists |-> FALSE, rows |-> {}]} \cup { [exists |-> TRUE, rows |-> rs] : rs \in SUBSET ServeRows }

\* the threshold_long query parameter; None when it is left out
ThresholdParams == {None, 45}

\* df[df['ticker'] == ticker].sort_values('bucket_start').iloc[-1]
LastRow(rows, ticker) ==
    CHOOSE r \in rows :
        /\ r.ticker = ticker
        /\ \A o \in rows : o.ticker = ticker => o.bucket_start <= r.bucket_start

NoResponse ==
    [endpoint |-> "none", ticker |-> "none", status |-> 0, prob_up |-> 0,
     decision |-> "none", by_model |-> FALSE]

HttpError(endpoint, ticker, code) ==
    [endpoint |-> endpoint, ticker |-> ticker, status |-> code, prob_up |-> 0,
     decision |-> "none", by_model |-> FALSE]

\* the long/short/hold decision of get_signal
Decision(prob_up, t_long, t_short) ==
    IF prob_up > t_long THEN "long"
    ELSE IF prob_up < t_short THEN "short"
    ELSE "hold"

\* the body of get_signal and of get_probabilities up to the response
Respond(endpoint, ticker, t_param, file, loaded) ==
    LET t_long == IF t_param = None THEN ConfigThresholdLong ELSE t_param
    IN IF ~file.exists THEN HttpError(endpoint, ticker, 404)
       ELSE IF \A r \in file.rows : r.ticker # ticker THEN HttpError(endpoint, ticker, 404)
       ELSE LET prob_up == IF loaded THEN LastRow(file.rows, ticker).mean_sent
                           ELSE DefaultProbUp
            IN [endpoint |-> endpoint, ticker |-> ticker, status |-> 200,
                prob_up |-> prob_up,
                decision |-> IF endpoint = "signal"
                             THEN Decision(prob_up, t_long, ConfigThresholdShort)
                             ELSE "none",
                by_model |-> loaded]

ServeIdle ==
    /\ api_model = FALSE
    /\ api_bars = [exists |-> FALSE, rows |-> {}]
    /\ api_response = NoResponse

\* the module is imported: the model is loaded when the artifact exists
ServeInit ==
    /\ api_model \in BOOLEAN
    /\ api_bars \in BarsFiles
    /\ api_response = NoResponse

\* GET /signal
GetSignal ==
    /\ \E ticker \in ServeTickers, t_param \in ThresholdParams :
          api_response' = Respond("signal", ticker, t_param, api_bars, api_model)
    /\ UNCHANGED <<api_model, api_bars>>
    /\ serveFrame

\* GET /probabilities
GetProbabilities ==
    /\ \E ticker \in ServeTickers :
          api_response' = Respond("probabilities", ticker, None, api_bars, api_model)
    /\ UNCHANGED <<api_model, api_bars>>
    /\ serveFrame

ServeNext == GetSignal \/ GetProbabilities

(* ------------------------------------------------------------------ *)
(* Consumers of the signal thresholds: scheduler.py, notify/telegram.py *)
(* and main.py                                                          *)
(* ------------------------------------------------------------------ *)

\* the defaults written into the .get calls, in percent
DefaultThresholdLong == 62
DefaultThresholdShort == 38

\* config['signals']: each threshold is a value or Absent (the key, or the
\* whole signals section, is missing from config.yml)
SignalConfigs ==
    [threshold_long : {Absent, 62, 70}, threshold_short : {Absent, 38}]

SignalTickers == {"A", "B"}

\* the model's probability for the latest bar of each ticker, in percent
SignalProbas == [SignalTickers -> {30, 50, 65}]

\* dict.get(key, default)
GetOr(value, default) == IF value = Absent THEN default ELSE value

NoRun ==
    [component |-> "none", status |-> "none", alerts |-> {},
     defaulted |-> FALSE]

\* the alerts of one pass over the tickers: 'up' above threshold_long,
\* 'down' below threshold_short
ThresholdAlerts(cfg, P) ==
    LET t_long  == GetOr(cfg.threshold_long, DefaultThresholdLong)
        t_short == GetOr(cfg.threshold_short, DefaultThresholdShort)
    IN { [ticker |-> t, direction |-> "up"] :
             t \in {u \in SignalTickers : P[u] > t_long} }
       \cup
       { [ticker |-> t, direction |-> "down"] :
             t \in {u \in SignalTickers : ~(P[u] > t_long) /\ P[u] < t_short} }

UsedDefault(cfg) == cfg.threshold_long = Absent \/ cfg.threshold_short = Absent

SignalsIdle ==
    /\ signal_config = [threshold_long |-> 62, threshold_short |-> 38]
    /\ signal_env = [model_exists |-> FALSE, telegram_enabled |-> FALSE,
                     P |-> [t \in SignalTickers |-> 50]]
    /\ signal_run = NoRun

SignalsInit ==
    /\ signal_config \in SignalConfigs
    /\ signal_env \in [model_exists : BOOLEAN, telegram_enabled : BOOLEAN,
                       P : SignalProbas]
    /\ signal_run = NoRun

\* SentixScheduler._job_process_alerts with a non-empty bars table
JobProcessAlerts ==
    /\ signal_run' =
         IF ~signal_env.model_exists
         THEN [component |-> "scheduler", status |-> "returned",
               alerts |-> {}, defaulted |-> FALSE]
         ELSE [component |-> "scheduler", status |-> "returned",
               alerts |-> ThresholdAlerts(signal_config, signal_env.P),
               defaulted |-> UsedDefault(signal_config)]
    /\ UNCHANGED <<signal_config, signal_env>>
    /\ signalsFrame

\* notify.telegram.run_threshold_check with the bars file present
RunThresholdCheck ==
    /\ signal_run' =
         IF ~signal_env.telegram_enabled \/ ~signal_env.model_exists
         THEN [component |-> "telegram", status |-> "returned",
               alerts |-> {}, defaulted |-> FALSE]
         ELSE [component |-> "telegram", status |-> "returned",
               alerts |-> ThresholdAlerts(signal_config, signal_env.P),
               defaulted |-> UsedDefault(signal_config)]
    /\ UNCHANGED <<signal_config, signal_env>>
    /\ signalsFrame

\* step 6 of main(): config['signals']['threshold_long'] raises KeyError when
\* the key is missing; the backtest is long-only
MainBacktest ==
    /\ signal_run' =
         IF signal_config.threshold_long = Absent
         THEN [component |-> "main", status |-> "raised",
               alerts |-> {}, defaulted |-> FALSE]
         ELSE [component |-> "main", status |-> "returned",
               alerts |-> { [ticker |-> t, direction |-> "up"] :
                              t \in {u \in SignalTickers :
                                       signal_env.P[u] > signal_config.threshold_long} },
               defaulted |-> FALSE]
    /\ UNCHANGED <<signal_config, signal_env>>
    /\ signalsFrame

SignalsNext == JobProcessAlerts \/ RunThresholdCheck \/ MainBacktest

(* ------------------------------------------------------------------ *)
(* Sentiment scorer: sentiment/finbert.py                              *)
(* ------------------------------------------------------------------ *)

MaxTexts == 3

\* texts handed to predict_batch; "" and " " are empty / whitespace-only
ScorerTexts == {"", " ", "up", "down"}
BatchSizes == {1, 2}

TextLists == UNION { [1..n -> ScorerTexts] : n \in 0..MaxTexts }

\* not text or not str(text).strip()
IsEmptyText(text) == text \in {"", " "}

\* softmax output of the underlying model for one input, in percent
ModelProbs(text) ==
    CASE text = "up"      -> [pos |-> 80, neg |-> 5,  neu |-> 15]
      [] text = "down"    -> [pos |-> 10, neg |-> 70, neu |-> 20]
      [] OTHER            -> [pos |-> 5,  neg |-> 5,  neu |-> 90]

NeutralResult == [pos |-> 0, neg |-> 0, neu |-> 100, score |-> 0]

\* processed_texts of _predict_single_batch: an empty text is replaced by the
\* placeholder "neutral" and stays in the batch given to the model
ProcessedTexts(batch) ==
    [i \in 1..Len(batch) |-> IF IsEmptyText(batch[i]) THEN "neutral" ELSE batch[i]]

\* batch_results of _predict_single_batch
PredictSingleBatch(batch) ==
    [i \in 1..Len(batch) |->
        IF IsEmptyText(batch[i]) THEN NeutralResult
        ELSE LET p == ModelProbs(ProcessedTexts(batch)[i])
             IN [pos |-> p.pos, neg |-> p.neg, neu |-> p.neu,
                 score |-> p.pos - p.neg]]

\* the batches of predict_batch: texts[i:i + batch_size] for i in
\* range(0, len(texts), batch_size), as <<start, batch>> pairs (1-based start)
RECURSIVE BatchesFrom(_, _, _)
BatchesFrom(texts, i, size) ==
    IF i > Len(texts) THEN <<>>
    ELSE LET last == IF i + size - 1 > Len(texts) THEN Len(texts) ELSE i + size - 1
         IN <<[start |-> i, batch |-> SubSeq(texts, i, last)]>>
            \o BatchesFrom(texts, last + 1, size)

RECURSIVE ConcatResults(_, _)
ConcatResults(batches, k) ==
    IF k > Len(batches) THEN <<>>
    ELSE PredictSingleBatch(batches[k].batch) \o ConcatResults(batches, k + 1)

ScorerIdle ==
    /\ sc_texts = <<>>
    /\ sc_batch_size = 1
    /\ sc_results = <<>>
    /\ sc_calls = <<>>
    /\ sc_pc = "idle"

ScorerInit ==
    /\ sc_texts \in TextLists
    /\ sc_batch_size \in BatchSizes
    /\ sc_results = <<>>
    /\ sc_calls = <<>>
    /\ sc_pc = "start"

\* FinBertSentiment.predict_batch: every batch goes through the tokenizer and
\* the model once; sc_calls records what the model was given
PredictBatch ==
    /\ sc_pc = "start"
    /\ LET batches == BatchesFrom(sc_texts, 1, sc_batch_size)
       IN /\ sc_results' = ConcatResults(batches, 1)
          /\ sc_calls' = [k \in 1..Len(batches) |->
                            [start |-> batches[k].start,
                             inputs |-> ProcessedTexts(batches[k].batch)]]
    /\ sc_pc' = "done"
    /\ UNCHANGED <<sc_texts, sc_batch_size>>
    /\ scorerFrame

ScorerNext == PredictBatch

(* ------------------------------------------------------------------ *)
(* Entity normalizer: ingest/normalize.py                              *)
(* ------------------------------------------------------------------ *)

MaxMapRows == 2

\* texts are sequences of characters over a small alphabet with both cases
LowerOf(c) == CASE c = "A" -> "a" [] c = "B" -> "b" [] OTHER -> c

LowerText(text) == [i \in 1..Len(text) |-> LowerOf(text[i])]

\* a title or body that is not a string (None, or NaN in pandas)
NotAString == <<"NaN">>

\* the articles a frame can hold
MapArticles ==
    { [id |-> 1, title |-> <<"A", "b">>, body |-> <<>>],
      [id |-> 2, title |-> <<"a">>,      body |-> <<"B">>],
      [id |-> 3, title |-> <<"x">>,      body |-> <<"x", "a">>],
      [id |-> 4, title |-> NotAString,   body |-> <<"b", "A">>],
      [id |-> 5, title |-> <<"x">>,      body |-> NotAString],
      [id |-> 6, title |-> <<"b">>,      body |-> <<"x">>] }

MapFrames == UNION { [1..n -> MapArticles] : n \in 0..MaxMapRows }

\* tickers.yml as a list in insertion order; T3 has no aliases
TickerMaps ==
    { << [ticker |-> "T1", aliases |-> << <<"a", "b">> >>],
         [ticker |-> "T2", aliases |-> << <<"x", "x">>, <<"a", " ", "b">> >>],
         [ticker |-> "T3", aliases |-> <<>>] >>,
      << [ticker |-> "T3", aliases |-> <<>>],
         [ticker |-> "T2", aliases |-> << <<"B">> >>],
         [ticker |-> "T1", aliases |-> << <<"A">>, <<"x", "a">> >>] >> }

\* re.compile('|'.join(re.escape(alias) ...), re.IGNORECASE).search(text):
\* scan the start positions left to right, try the alternatives in order
AliasAt(text, alias, i) ==
    /\ i + Len(alias) - 1 <= Len(text)
    /\ \A j \in 1..Len(alias) : LowerOf(text[i + j - 1]) = LowerOf(alias[j])

RECURSIVE RegexSearchFrom(_, _, _)
RegexSearchFrom(text, aliases, i) ==
    IF i > Len(text) + 1 THEN FALSE
    ELSE IF \E k \in 1..Len(aliases) : AliasAt(text, aliases[k], i) THEN TRUE
    ELSE RegexSearchFrom(text, aliases, i + 1)

RegexSearchMutantCaseSensitive(text, aliases) ==
    \E k \in 1..Len(aliases) : \E i \in 1..(Len(text) + 1) :
        /\ i + Len(aliases[k]) - 1 <= Len(text)
        /\ SubSeq(text, i, i + Len(aliases[k]) - 1) = aliases[k]

RegexSearch(text, aliases) == RegexSearchFrom(text, aliases, 1)

\* title + ' ' + body with a non-string field replaced by ''
ArticleText(row) ==
    (IF row.title = NotAString THEN <<>> ELSE row.title) \o <<" ">>
    \o (IF row.body = NotAString THEN <<>> ELSE row.body)

\* _compile_ticker_patterns and _find_tickers_in_text: the tickers with at
\* least one alias whose pattern is found, in the map's order
RECURSIVE FindTickers(_, _, _)
FindTickers(text, ticker_map, k) ==
    IF k > Len(ticker_map) THEN <<>>
    ELSE (IF Len(ticker_map[k].aliases) > 0 /\ RegexSearch(text, ticker_map[k].aliases)
          THEN <<ticker_map[k].ticker>> ELSE <<>>)
         \o FindTickers(text, ticker_map, k + 1)

\* df.explode('tickers') of one row
ExplodeRow(row, tickers) ==
    [k \in 1..Len(tickers) |->
        [id |-> row.id, ticker |-> tickers[k], title |-> row.title, body |-> row.body]]

\* map_entities: rows with no ticker are filtered out, the others exploded
RECURSIVE MapEntities(_, _, _)
MapEntities(df, ticker_map, i) ==
    IF i > Len(df) THEN <<>>
    ELSE ExplodeRow(df[i], FindTickers(ArticleText(df[i]), ticker_map, 1))
         \o MapEntities(df, ticker_map, i + 1)

MapperIdle ==
    /\ map_df = <<>>
    /\ tickers_yml = <<>>
    /\ map_out = <<>>
    /\ map_pc = "idle"

MapperInit ==
    /\ map_df \in MapFrames
    /\ tickers_yml \in TickerMaps
    /\ map_out = <<>>
    /\ map_pc = "start"

RunMapEntities ==
    /\ map_pc = "start"
    /\ map_out' = MapEntities(map_df, tickers_yml, 1)
    /\ map_pc' = "done"
    /\ UNCHANGED <<map_df, tickers_yml>>
    /\ mapperFrame

MapperNext == RunMapEntities

(* ------------------------------------------------------------------ *)
(* RSS ingestion: ingest/rss_client.py, fetch_rss                      *)
(* ------------------------------------------------------------------ *)

MaxFeeds == 2

\* entries of a parsed feed: long is len(title + body) >= min_chars, lang is
\* what detect returns ("none" when it raises LangDetectException)
RssEntries ==
    { <<>>,
      << [title |-> "t",  long |-> TRUE,  lang |-> "pt"] >>,
      << [title |-> "t",  long |-> TRUE,  lang |-> "pt"],
         [title |-> "t",  long |-> TRUE,  lang |-> "en"] >>,
      << [title |-> "t",  long |-> FALSE, lang |-> "pt"],
         [title |-> "td", long |-> TRUE,  lang |-> "pt"] >>,
      << [title |-> "td", long |-> TRUE,  lang |-> "none"],
         [title |-> "t",  long |-> TRUE,  lang |-> "pt"] >> }

\* a feed: the netloc of its URL and what _fetch_single_feed returns for it
\* (parsed is FALSE when it returns None)
RssFeeds ==
    [domain : {"x", "dx"}, parsed : {TRUE}, entries : RssEntries]
    \cup [domain : {"x"}, parsed : {FALSE}, entries : {<<>>}]

FeedLists == UNION { [1..n -> RssFeeds] : n \in 0..MaxFeeds }

AllowedLangs == { {}, {"pt"} }

\* hashlib.sha1((title + domain).encode()).hexdigest(): equal exactly when
\* the concatenated strings are equal
ArticleId(title, domain) == title \o domain

\* the None that _process_entry returns for a skipped entry
NoArticle == [id |-> "", source |-> "", title |-> "", lang |-> "none"]

\* _process_entry: the article of an entry, or NoArticle when it is skipped
ProcessEntryMutantNoSeen(entry, domain, allowed_langs, seen_ids) ==
    IF ~entry.long THEN NoArticle
    ELSE IF entry.lang = "none" THEN NoArticle
    ELSE IF allowed_langs # {} /\ entry.lang \notin allowed_langs THEN NoArticle
    ELSE [id |-> ArticleId(entry.title, domain), source |-> domain,
          title |-> entry.title, lang |-> entry.lang]

ProcessEntry(entry, domain, allowed_langs, seen_ids) ==
    IF ~entry.long THEN NoArticle
    ELSE IF entry.lang = "none" THEN NoArticle
    ELSE IF allowed_langs # {} /\ entry.lang \notin allowed_langs THEN NoArticle
    ELSE IF ArticleId(entry.title, domain) \in seen_ids THEN NoArticle
    ELSE [id |-> ArticleId(entry.title, domain), source |-> domain,
          title |-> entry.title, lang |-> entry.lang]

\* the inner loop of fetch_rss over feed.entries: <<found, seen_ids>> after
\* entry j and the ones behind it (found is the articles list so far); origin records where an article came from
RECURSIVE ProcessEntries(_, _, _, _, _, _)
ProcessEntries(feed, f, j, allowed_langs, found, seen_ids) ==
    IF j > Len(feed.entries) THEN [articles |-> found, seen_ids |-> seen_ids]
    ELSE LET article == ProcessEntry(feed.entries[j], feed.domain, allowed_langs, seen_ids)
         IN IF article = NoArticle
            THEN ProcessEntries(feed, f, j + 1, allowed_langs, found, seen_ids)
            ELSE ProcessEntries(feed, f, j + 1, allowed_langs,
                                Append(found, [article |-> article, origin |-> <<f, j>>]),
                                seen_ids \cup {article.id})

RssIdle ==
    /\ rss_feeds = <<>>
    /\ rss_langs = {}
    /\ rss_i = 1
    /\ rss_articles = <<>>
    /\ rss_seen = {}
    /\ rss_pc = "idle"

RssInit ==
    /\ rss_feeds \in FeedLists
    /\ rss_langs \in AllowedLangs
    /\ rss_i = 1
    /\ rss_articles = <<>>
    /\ rss_seen = {}
    /\ rss_pc = "loop"

\* one iteration of "for feed_url in feeds"
FetchFeed ==
    /\ rss_pc = "loop"
    /\ rss_i <= Len(rss_feeds)
    /\ LET feed == rss_feeds[rss_i]
       IN IF ~feed.parsed \/ feed.entries = <<>>
          THEN UNCHANGED <<rss_articles, rss_seen>>
          ELSE LET res == ProcessEntries(feed, rss_i, 1, rss_langs,
                                         rss_articles, rss_seen)
               IN /\ rss_articles' = res.articles
                  /\ rss_seen' = res.seen_ids
    /\ rss_i' = rss_i + 1
    /\ UNCHANGED <<rss_feeds, rss_langs, rss_pc>>
    /\ rssFrame

\* return pd.DataFrame(articles)
FetchReturn ==
    /\ rss_pc = "loop"
    /\ rss_i > Len(rss_feeds)
    /\ rss_pc' = "done"
    /\ UNCHANGED <<rss_feeds, rss_langs, rss_i, rss_articles, rss_seen>>
    /\ rssFrame

RssNext == FetchFeed \/ FetchReturn

(* ------------------------------------------------------------------ *)
(* Feed fetch with retries: ingest/rss_client.py, _fetch_single_feed   *)
(* ------------------------------------------------------------------ *)

MaxRetries == 4

\* what one feedparser.parse call can do: return a parsed feed or raise
ParsedFeeds == {"feed_a", "feed_b"}
ParseErrors == {"Timeout", "ParseError"}

\* if attempt == max_retries - 1
IsLastAttemptMutantEarly(n, limit) == n >= limit - 2

IsLastAttempt(n, limit) == n = limit - 1

FetchIdle ==
    /\ max_retries = 0
    /\ attempt = 0
    /\ parse_log = <<>>
    /\ sleeps = 0
    /\ fetch_result = "pending"
    /\ fetch_pc = "idle"

FetchInit ==
    /\ max_retries \in 0..MaxRetries
    /\ attempt = 0
    /\ parse_log = <<>>
    /\ sleeps = 0
    /\ fetch_result = "pending"
    /\ fetch_pc = "try"

\* feedparser.parse returns: return feed
ParseOk ==
    /\ fetch_pc = "try"
    /\ attempt < max_retries
    /\ \E feed \in ParsedFeeds :
         /\ parse_log' = Append(parse_log, [raised |-> FALSE, value |-> feed])
         /\ fetch_result' = feed
    /\ fetch_pc' = "done"
    /\ UNCHANGED <<max_retries, attempt, sleeps>>
    /\ fetchFrame

\* feedparser.parse raises: return None on the last attempt, else sleep
ParseRaise ==
    /\ fetch_pc = "try"
    /\ attempt < max_retries
    /\ \E e \in ParseErrors :
         parse_log' = Append(parse_log, [raised |-> TRUE, value |-> e])
    /\ IF IsLastAttempt(attempt, max_retries)
       THEN fetch_result' = "None" /\ fetch_pc' = "done"
       ELSE fetch_result' = fetch_result /\ fetch_pc' = "sleep"
    /\ UNCHANGED <<max_retries, attempt, sleeps>>
    /\ fetchFrame

\* time.sleep(1), then the next iteration of the for loop
Backoff ==
    /\ fetch_pc = "sleep"
    /\ sleeps' = sleeps + 1
    /\ attempt' = attempt + 1
    /\ fetch_pc' = "try"
    /\ UNCHANGED <<max_retries, parse_log, fetch_result>>
    /\ fetchFrame

\* the loop ends without a return: return None
LoopExhausted ==
    /\ fetch_pc = "try"
    /\ attempt >= max_retries
    /\ fetch_result' = "None"
    /\ fetch_pc' = "done"
    /\ UNCHANGED <<max_retries, attempt, parse_log, sleeps>>
    /\ fetchFrame

FetchNext == ParseOk \/ ParseRaise \/ Backoff \/ LoopExhausted

(* ------------------------------------------------------------------ *)
(* Rule store: alerts/engine.py _load_rules, _save_rules, add_rule,    *)
(* remove_rule and the triggers of process_alerts                      *)
(* ------------------------------------------------------------------ *)

StoreRuleIds == {"r1", "r2"}
StoreCooldown == 2

\* datetime.isoformat and datetime.fromisoformat
IsoFormat(t) == ToString(t)
FromIsoFormat(s) == CHOOSE t \in 0..MaxTime : ToString(t) = s

NewRule(id) ==
    [rule_id |-> id, cooldown_minutes |-> StoreCooldown, last_triggered |-> None]

\* AlertRule.to_dict
ToDict(rule) ==
    [rule_id |-> rule.rule_id, cooldown_minutes |-> rule.cooldown_minutes,
     last_triggered |-> IF rule.last_triggered # None
                        THEN IsoFormat(rule.last_triggered) ELSE "null"]

\* AlertRule.from_dict
FromDict(data) ==
    [rule_id |-> data.rule_id, cooldown_minutes |-> data.cooldown_minutes,
     last_triggered |-> IF data.last_triggered # "null"
                        THEN FromIsoFormat(data.last_triggered) ELSE None]

\* _save_rules: [rule.to_dict() for rule in self.rules.values()]
SaveRules(rs) == [i \in 1..Len(rs) |-> ToDict(rs[i])]

\* self.rules[rule.rule_id] = rule on an insertion-ordered dict
DictSet(rs, rule) ==
    IF \E i \in 1..Len(rs) : rs[i].rule_id = rule.rule_id
    THEN [i \in 1..Len(rs) |-> IF rs[i].rule_id = rule.rule_id THEN rule ELSE rs[i]]
    ELSE Append(rs, rule)

\* _load_rules into an empty dict
RECURSIVE LoadRules(_, _, _)
LoadRules(file, i, rs) ==
    IF i > Len(file) THEN rs
    ELSE LoadRules(file, i + 1, DictSet(rs, FromDict(file[i])))

\* the loop of process_alerts: a rule whose evaluate is true is triggered;
\* met is the set of rule ids whose conditions hold on the data
TriggerAll(rs, met, t) ==
    [i \in 1..Len(rs) |->
        IF rs[i].rule_id \in met /\ ~CooldownActive(rs[i], t)
        THEN Trigger(rs[i], t) ELSE rs[i]]

FiredIds(rs, met, t) ==
    { rs[i].rule_id : i \in { j \in 1..Len(rs) :
                                rs[j].rule_id \in met /\ ~CooldownActive(rs[j], t) } }

StoreIdle ==
    /\ engine_rules = <<>>
    /\ rules_file = <<>>
    /\ store_now = 0
    /\ last_fired = [id \in StoreRuleIds |-> None]
    /\ refired = FALSE
    /\ store_op = "idle"

StoreInit ==
    /\ engine_rules = <<>>
    /\ rules_file = <<>>
    /\ store_now = 0
    /\ last_fired = [id \in StoreRuleIds |-> None]
    /\ refired = FALSE
    /\ store_op = "init"

StoreTick ==
    /\ store_op # "idle"
    /\ store_now < MaxTime
    /\ store_now' = store_now + 1
    /\ store_op' = "tick"
    /\ UNCHANGED <<engine_rules, rules_file, last_fired, refired>>
    /\ storeFrame

\* AlertEngine.add_rule
AddRule ==
    /\ store_op # "idle"
    /\ \E id \in StoreRuleIds :
         /\ engine_rules' = DictSet(engine_rules, NewRule(id))
         /\ last_fired' = [last_fired EXCEPT ![id] = None]
    /\ rules_file' = SaveRules(engine_rules')
    /\ store_op' = "add_rule"
    /\ UNCHANGED <<store_now, refired>>
    /\ storeFrame

\* AlertEngine.remove_rule
RemoveRule ==
    /\ store_op # "idle"
    /\ \E id \in StoreRuleIds :
         IF \E i \in 1..Len(engine_rules) : engine_rules[i].rule_id = id
         THEN /\ engine_rules' = SelectSeq(engine_rules, LAMBDA r : r.rule_id # id)
              /\ rules_file' = SaveRules(engine_rules')
              /\ last_fired' = [last_fired EXCEPT ![id] = None]
         ELSE UNCHANGED <<engine_rules, rules_file, last_fired>>
    /\ store_op' = "remove_rule"
    /\ UNCHANGED <<store_now, refired>>
    /\ storeFrame

\* AlertEngine.process_alerts: triggers change the rules in memory only
StorePass ==
    /\ store_op # "idle"
    /\ \E met \in SUBSET StoreRuleIds :
         LET fired == FiredIds(engine_rules, met, store_now)
         IN /\ engine_rules' = TriggerAll(engine_rules, met, store_now)
            /\ refired' = (refired \/ \E id \in fired :
                              /\ last_fired[id] # None
                              /\ store_now - last_fired[id] < StoreCooldown)
            /\ last_fired' = [id \in StoreRuleIds |->
                                IF id \in fired THEN store_now ELSE last_fired[id]]
    /\ store_op' = "process_alerts"
    /\ UNCHANGED <<rules_file, store_now>>
    /\ storeFrame

\* a new AlertEngine: __init__ starts from an empty dict and calls _load_rules
Restart ==
    /\ store_op # "idle"
    /\ engine_rules' = LoadRules(rules_file, 1, <<>>)
    /\ store_op' = "restart"
    /\ UNCHANGED <<rules_file, store_now, last_fired, refired>>
    /\ storeFrame

StoreNext == StoreTick \/ AddRule \/ RemoveRule \/ StorePass \/ Restart

(* ------------------------------------------------------------------ *)
(* Rule CRUD racing a pass: alerts/engine.py process_alerts iterating   *)
(* self.rules while add_rule / remove_rule run in another thread        *)
(* ------------------------------------------------------------------ *)

MaxDictEntries == 3

RaceRuleIds == {"r1", "r2", "r3"}

\* a deleted slot of the dict's entry array
Dummy == "dummy"

\* len(self.rules)
DictUsed(entries) == Cardinality({ i \in 1..Len(entries) : entries[i] # Dummy })

DictKeys(entries) == { entries[i] : i \in 1..Len(entries) } \ {Dummy}

\* the next live slot after pos, or 0 when the iterator is exhausted
NextSlot(entries, pos) ==
    IF \E i \in (pos + 1)..Len(entries) : entries[i] # Dummy
    THEN CHOOSE i \in (pos + 1)..Len(entries) :
             /\ entries[i] # Dummy
             /\ \A j \in (pos + 1)..(i - 1) : entries[j] = Dummy
    ELSE 0

NoIteration ==
    [pc |-> "idle", pos |-> 0, used |-> 0, evaluated |-> <<>>, stable |-> {}]

\* the size check of the dict iterator: RuntimeError "dictionary changed size
\* during iteration" when len differs from the length seen at its creation
SizeChanged(entries, used) == DictUsed(entries) # used

RaceIdle ==
    /\ dict_entries = <<>>
    /\ iteration = NoIteration

RaceInit ==
    /\ dict_entries \in UNION { [1..n -> RaceRuleIds] : n \in 1..2 }
    /\ \A i, j \in 1..Len(dict_entries) : dict_entries[i] = dict_entries[j] => i = j
    /\ iteration = [NoIteration EXCEPT !.pc = "ready"]

\* process_alerts reaches "for rule in self.rules.values()"
PassBegin ==
    /\ iteration.pc = "ready"
    /\ iteration' = [pc |-> "iter", pos |-> 0, used |-> DictUsed(dict_entries),
                     evaluated |-> <<>>, stable |-> DictKeys(dict_entries)]
    /\ UNCHANGED dict_entries
    /\ raceFrame

\* one step of the for loop: fetch the next rule and run the loop body on it;
\* the fetch is outside the try of the loop body
PassStep ==
    /\ iteration.pc = "iter"
    /\ iteration' =
         IF SizeChanged(dict_entries, iteration.used)
         THEN [iteration EXCEPT !.pc = "raised"]
         ELSE LET nxt == NextSlot(dict_entries, iteration.pos)
              IN IF nxt = 0
                 THEN [iteration EXCEPT !.pc = "returned"]
                 ELSE [iteration EXCEPT !.pos = nxt,
                                        !.evaluated = Append(@, dict_entries[nxt])]
    /\ UNCHANGED dict_entries
    /\ raceFrame

\* add_rule from a request thread: self.rules[rule.rule_id] = rule
RaceAddRule ==
    /\ iteration.pc # "idle"
    /\ \E id \in RaceRuleIds :
         IF id \in DictKeys(dict_entries)
         THEN /\ UNCHANGED dict_entries
              /\ iteration' = [iteration EXCEPT !.stable = @ \ {id}]
         ELSE /\ Len(dict_entries) < MaxDictEntries
              /\ dict_entries' = Append(dict_entries, id)
              /\ UNCHANGED iteration
    /\ raceFrame

\* remove_rule from a request thread: del self.rules[rule_id]
RaceRemoveRule ==
    /\ iteration.pc # "idle"
    /\ \E id \in DictKeys(dict_entries) :
         /\ dict_entries' = [i \in 1..Len(dict_entries) |->
                               IF dict_entries[i] = id THEN Dummy ELSE dict_entries[i]]
         /\ iteration' = [iteration EXCEPT !.stable = @ \ {id}]
    /\ raceFrame

RaceNext == PassBegin \/ PassStep \/ RaceAddRule \/ RaceRemoveRule

(* ------------------------------------------------------------------ *)
(* Monitor lifecycle: alerts/engine.py start_monitoring,               *)
(* stop_monitoring and _monitor_loop                                   *)
(* ------------------------------------------------------------------ *)

MaxStarts == 3

\* what one iteration's try block can do
PassOutcomes == {"ok", "no_file", "raise"}

\* where the loop goes after the try block: the except clause swallows the
\* exception and both paths reach time.sleep
AfterTryMutantNoExcept(outcome) == IF outcome = "raise" THEN "exited" ELSE "sleep"

AfterTry(outcome) == "sleep"

NewThread == [pc |-> "check", saw_stop |-> FALSE, passes |-> 0]

Alive(th) == th.pc # "exited"

MonitorIdle ==
    /\ is_running = FALSE
    /\ monitor_thread = 0
    /\ monitor_threads = <<>>
    /\ caller = [pc |-> "none", last |-> "none"]

MonitorInit ==
    /\ is_running = FALSE
    /\ monitor_thread = 0
    /\ monitor_threads = <<>>
    /\ caller = [pc |-> "idle", last |-> "init"]

\* start_monitoring: a no-op while is_running, else a new daemon thread
StartMonitoring ==
    /\ caller.pc = "idle"
    /\ IF is_running
       THEN UNCHANGED <<is_running, monitor_thread, monitor_threads>>
       ELSE /\ Len(monitor_threads) < MaxStarts
            /\ is_running' = TRUE
            /\ monitor_threads' = Append(monitor_threads, NewThread)
            /\ monitor_thread' = Len(monitor_threads) + 1
    /\ caller' = [pc |-> "idle", last |-> "start"]
    /\ monitorFrame

\* stop_monitoring up to the join
StopSetFlag ==
    /\ caller.pc = "idle"
    /\ is_running' = FALSE
    /\ caller' = IF monitor_thread # 0
                 THEN [pc |-> "join", last |-> caller.last]
                 ELSE [pc |-> "idle", last |-> "stop"]
    /\ UNCHANGED <<monitor_thread, monitor_threads>>
    /\ monitorFrame

\* self.monitor_thread.join() returns once that thread has ended
StopJoin ==
    /\ caller.pc = "join"
    /\ ~Alive(monitor_threads[monitor_thread])
    /\ caller' = [pc |-> "idle", last |-> "stop"]
    /\ UNCHANGED <<is_running, monitor_thread, monitor_threads>>
    /\ monitorFrame

\* while self.is_running
LoopCheck ==
    /\ \E k \in 1..Len(monitor_threads) :
         /\ monitor_threads[k].pc = "check"
         /\ monitor_threads' =
              [monitor_threads EXCEPT ![k] =
                 IF is_running THEN [@ EXCEPT !.pc = "body"]
                 ELSE [@ EXCEPT !.pc = "exited", !.saw_stop = TRUE]]
    /\ UNCHANGED <<is_running, monitor_thread, caller>>
    /\ monitorFrame

\* the try block of one iteration: load the bars, process, execute
LoopPass ==
    /\ \E k \in 1..Len(monitor_threads), outcome \in PassOutcomes :
         /\ monitor_threads[k].pc = "body"
         /\ monitor_threads' =
              [monitor_threads EXCEPT ![k] =
                 [@ EXCEPT !.pc = AfterTry(outcome),
                           !.passes = IF outcome = "no_file" THEN @ ELSE 1]]
    /\ UNCHANGED <<is_running, monitor_thread, caller>>
    /\ monitorFrame

\* time.sleep(check_interval)
LoopSleep ==
    /\ \E k \in 1..Len(monitor_threads) :
         /\ monitor_threads[k].pc = "sleep"
         /\ monitor_threads' = [monitor_threads EXCEPT ![k] = [@ EXCEPT !.pc = "check"]]
    /\ UNCHANGED <<is_running, monitor_thread, caller>>
    /\ monitorFrame

MonitorNext ==
    StartMonitoring \/ StopSetFlag \/ StopJoin \/ LoopCheck \/ LoopPass \/ LoopSleep

(* ------------------------------------------------------------------ *)
(* Scheduled alert job: scheduler.py _job_process_alerts reading the    *)
(* bars through database.py load_sentiment_bars                        *)
(* ------------------------------------------------------------------ *)

\* the rows the sentiment_bars table can hold, one per (ticker, bucket_start);
\* mean_sent stands for the features of the bar
JobRows ==
    { [ticker |-> "A", bucket_start |-> 0, mean_sent |-> 40],
      [ticker |-> "A", bucket_start |-> 1, mean_sent |-> 55],
      [ticker |-> "A", bucket_start |-> 2, mean_sent |-> 70],
      [ticker |-> "B", bucket_start |-> 0, mean_sent |-> 30],
      [ticker |-> "B", bucket_start |-> 1, mean_sent |-> 65] }

\* SELECT * FROM sentiment_bars ... ORDER BY bucket_start DESC: any order of
\* the rows with bucket_start non-increasing
LoadSentimentBars(rows) ==
    { df \in [1..Cardinality(rows) -> rows] :
        /\ \A i, j \in DOMAIN df : df[i] = df[j] => i = j
        /\ \A i, j \in DOMAIN df : i < j => df[i].bucket_start >= df[j].bucket_start }

\* bars_df[bars_df['ticker'] == ticker].iloc[-1:]
TickerData(bars_df, ticker) ==
    LET idx == { i \in DOMAIN bars_df : bars_df[i].ticker = ticker }
    IN bars_df[CHOOSE i \in idx : \A j \in idx : j <= i]

\* bars_df['ticker'].unique()
UniqueTickers(bars_df) == { bars_df[i].ticker : i \in DOMAIN bars_df }

JobIdle ==
    /\ job_table = {}
    /\ job_model = FALSE
    /\ job_bars_df = <<>>
    /\ job_used = <<>>
    /\ job_pc = "idle"

JobInit ==
    /\ job_table \in SUBSET JobRows
    /\ job_model \in BOOLEAN
    /\ job_bars_df = <<>>
    /\ job_used = <<>>
    /\ job_pc = "start"

\* SentixScheduler._job_process_alerts: job_used maps every ticker to the bar
\* whose probability is compared with the thresholds
JobRun ==
    /\ job_pc = "start"
    /\ \E bars_df \in LoadSentimentBars(job_table) :
         /\ job_bars_df' = bars_df
         /\ job_used' =
              IF bars_df = <<>> \/ ~job_model THEN <<>>
              ELSE [t \in UniqueTickers(bars_df) |-> TickerData(bars_df, t)]
    /\ job_pc' = "done"
    /\ UNCHANGED <<job_table, job_model>>
    /\ jobFrame

JobNext == JobRun

(* ------------------------------------------------------------------ *)
(* Article persistence: database.py save_articles called by            *)
(* scheduler.py _job_ingest_rss                                        *)
(* ------------------------------------------------------------------ *)

\* what fetch_rss returns: frames whose ids are pairwise distinct
FetchedFrames ==
    { df \in MapFrames : \A i, j \in DOMAIN df : df[i].id = df[j].id => i = j }

\* INSERT OR REPLACE INTO articles: id is the PRIMARY KEY of the table
InsertOrReplaceArticle(table, row) ==
    { r \in table : r.id # row.id } \cup {row}

\* the loop of save_articles over df_insert.iterrows(): the table and the
\* rows_inserted counter after row i and the ones behind it
RECURSIVE SaveArticles(_, _, _, _)
SaveArticles(df, i, table, rows_inserted) ==
    IF i > Len(df) THEN [table |-> table, rows_inserted |-> rows_inserted]
    ELSE SaveArticles(df, i + 1, InsertOrReplaceArticle(table, df[i]), rows_inserted + 1)

IngestIdle ==
    /\ ingest_df = <<>>
    /\ ingest_tickers = <<>>
    /\ ingest_mapped = <<>>
    /\ articles_table = {}
    /\ ingest_count = 0
    /\ ingest_pc = "idle"

IngestInit ==
    /\ ingest_df \in FetchedFrames
    /\ ingest_tickers \in TickerMaps
    /\ ingest_mapped = <<>>
    /\ articles_table = {}
    /\ ingest_count = 0
    /\ ingest_pc = "start"

\* SentixScheduler._job_ingest_rss after fetch_rss: map, then save
JobIngestRss ==
    /\ ingest_pc = "start"
    /\ LET mapped == IF ingest_df = <<>> THEN <<>>
                     ELSE MapEntities(ingest_df, ingest_tickers, 1)
           saved == IF mapped = <<>>
                    THEN [table |-> articles_table, rows_inserted |-> 0]
                    ELSE SaveArticles(mapped, 1, articles_table, 0)
       IN /\ ingest_mapped' = mapped
          /\ articles_table' = saved.table
          /\ ingest_count' = saved.rows_inserted
    /\ ingest_pc' = "done"
    /\ UNCHANGED <<ingest_df, ingest_tickers>>
    /\ ingestFrame

IngestNext == JobIngestRss

(* ------------------------------------------------------------------ *)
(* Specifications                                                      *)
(* ------------------------------------------------------------------ *)

Init == AlertInit /\ LabelIdle /\ AggIdle /\ DbIdle /\ ArtifactIdle /\ FeatIdle /\ BtIdle /\ WalkIdle /\ PipeIdle /\ PricesIdle /\ ServeIdle /\ SignalsIdle /\ ScorerIdle /\ MapperIdle /\ RssIdle /\ FetchIdle /\ StoreIdle /\ RaceIdle /\ MonitorIdle /\ JobIdle /\ IngestIdle

Next == AlertNext

Spec == Init /\ [][Next]_vars

InitLabel == AlertIdle /\ LabelInit /\ AggIdle /\ DbIdle /\ ArtifactIdle /\ FeatIdle /\ BtIdle /\ WalkIdle /\ PipeIdle /\ PricesIdle /\ ServeIdle /\ SignalsIdle /\ ScorerIdle /\ MapperIdle /\ RssIdle /\ FetchIdle /\ StoreIdle /\ RaceIdle /\ MonitorIdle /\ JobIdle /\ IngestIdle

NextLabel == LabelNext

SpecLabel == InitLabel /\ [][NextLabel]_vars

InitAgg == AlertIdle /\ LabelIdle /\ AggInit /\ DbIdle /\ ArtifactIdle /\ FeatIdle /\ BtIdle /\ WalkIdle /\ PipeIdle /\ PricesIdle /\ ServeIdle /\ SignalsIdle /\ ScorerIdle /\ MapperIdle /\ RssIdle /\ FetchIdle /\ StoreIdle /\ RaceIdle /\ MonitorIdle /\ JobIdle /\ IngestIdle

NextAgg == AggNext

SpecAgg == InitAgg /\ [][NextAgg]_vars

InitDb == AlertIdle /\ LabelIdle /\ AggIdle /\ DbInit /\ ArtifactIdle /\ FeatIdle /\ BtIdle /\ WalkIdle /\ PipeIdle /\ PricesIdle /\ ServeIdle /\ SignalsIdle /\ ScorerIdle /\ MapperIdle /\ RssIdle /\ FetchIdle /\ StoreIdle /\ RaceIdle /\ MonitorIdle /\ JobIdle /\ IngestIdle

NextDb == DbNext

SpecDb == InitDb /\ [][NextDb]_vars

InitArtifact == AlertIdle /\ LabelIdle /\ AggIdle /\ DbIdle /\ ArtifactInit /\ FeatIdle /\ BtIdle /\ WalkIdle /\ PipeIdle /\ PricesIdle /\ ServeIdle /\ SignalsIdle /\ ScorerIdle /\ MapperIdle /\ RssIdle /\ FetchIdle /\ StoreIdle /\ RaceIdle /\ MonitorIdle /\ JobIdle /\ IngestIdle

NextArtifact == ArtifactNext

SpecArtifact == InitArtifact /\ [][NextArtifact]_vars

InitFeat == AlertIdle /\ LabelIdle /\ AggIdle /\ DbIdle /\ ArtifactIdle /\ FeatInit /\ BtIdle /\ WalkIdle /\ PipeIdle /\ PricesIdle /\ ServeIdle /\ SignalsIdle /\ ScorerIdle /\ MapperIdle /\ RssIdle /\ FetchIdle /\ StoreIdle /\ RaceIdle /\ MonitorIdle /\ JobIdle /\ IngestIdle

NextFeat == FeatNext

SpecFeat == InitFeat /\ [][NextFeat]_vars

InitBacktest == AlertIdle /\ LabelIdle /\ AggIdle /\ DbIdle /\ ArtifactIdle /\ FeatIdle /\ BtInit /\ WalkIdle /\ PipeIdle /\ PricesIdle /\ ServeIdle /\ SignalsIdle /\ ScorerIdle /\ MapperIdle /\ RssIdle /\ FetchIdle /\ StoreIdle /\ RaceIdle /\ MonitorIdle /\ JobIdle /\ IngestIdle

NextBacktest == BtNext

SpecBacktest == InitBacktest /\ [][NextBacktest]_vars

InitWalk == AlertIdle /\ LabelIdle /\ AggIdle /\ DbIdle /\ ArtifactIdle /\ FeatIdle /\ BtIdle /\ WalkInit /\ PipeIdle /\ PricesIdle /\ ServeIdle /\ SignalsIdle /\ ScorerIdle /\ MapperIdle /\ RssIdle /\ FetchIdle /\ StoreIdle /\ RaceIdle /\ MonitorIdle /\ JobIdle /\ IngestIdle

NextWalk == WalkNext

SpecWalk == InitWalk /\ [][NextWalk]_vars

InitPipeline == AlertIdle /\ LabelIdle /\ AggIdle /\ DbIdle /\ ArtifactIdle /\ FeatIdle /\ BtIdle /\ WalkIdle /\ PipeInit /\ PricesIdle /\ ServeIdle /\ SignalsIdle /\ ScorerIdle /\ MapperIdle /\ RssIdle /\ FetchIdle /\ StoreIdle /\ RaceIdle /\ MonitorIdle /\ JobIdle /\ IngestIdle

NextPipeline == PipeNext

SpecPipeline == InitPipeline /\ [][NextPipeline]_vars

InitPrices == AlertIdle /\ LabelIdle /\ AggIdle /\ DbIdle /\ ArtifactIdle /\ FeatIdle /\ BtIdle /\ WalkIdle /\ PipeIdle /\ PricesInit /\ ServeIdle /\ SignalsIdle /\ ScorerIdle /\ MapperIdle /\ RssIdle /\ FetchIdle /\ StoreIdle /\ RaceIdle /\ MonitorIdle /\ JobIdle /\ IngestIdle

NextPrices == PricesNext

SpecPrices == InitPrices /\ [][NextPrices]_vars

InitServe == AlertIdle /\ LabelIdle /\ AggIdle /\ DbIdle /\ ArtifactIdle /\ FeatIdle /\ BtIdle /\ WalkIdle /\ PipeIdle /\ PricesIdle /\ ServeInit /\ SignalsIdle /\ ScorerIdle /\ MapperIdle /\ RssIdle /\ FetchIdle /\ StoreIdle /\ RaceIdle /\ MonitorIdle /\ JobIdle /\ IngestIdle

NextServe == ServeNext

SpecServe == InitServe /\ [][NextServe]_vars

InitSignals == AlertIdle /\ LabelIdle /\ AggIdle /\ DbIdle /\ ArtifactIdle /\ FeatIdle /\ BtIdle /\ WalkIdle /\ PipeIdle /\ PricesIdle /\ ServeIdle /\ SignalsInit /\ ScorerIdle /\ MapperIdle /\ RssIdle /\ FetchIdle /\ StoreIdle /\ RaceIdle /\ MonitorIdle /\ JobIdle /\ IngestIdle

NextSignals == SignalsNext

SpecSignals == InitSignals /\ [][NextSignals]_vars

InitScorer == AlertIdle /\ LabelIdle /\ AggIdle /\ DbIdle /\ ArtifactIdle /\ FeatIdle /\ BtIdle /\ WalkIdle /\ PipeIdle /\ PricesIdle /\ ServeIdle /\ SignalsIdle /\ ScorerInit /\ MapperIdle /\ RssIdle /\ FetchIdle /\ StoreIdle /\ RaceIdle /\ MonitorIdle /\ JobIdle /\ IngestIdle

NextScorer == ScorerNext

SpecScorer == InitScorer /\ [][NextScorer]_vars

InitMapper == AlertIdle /\ LabelIdle /\ AggIdle /\ DbIdle /\ ArtifactIdle /\ FeatIdle /\ BtIdle /\ WalkIdle /\ PipeIdle /\ PricesIdle /\ ServeIdle /\ SignalsIdle /\ ScorerIdle /\ MapperInit /\ RssIdle /\ FetchIdle /\ StoreIdle /\ RaceIdle /\ MonitorIdle /\ JobIdle /\ IngestIdle

NextMapper == MapperNext

SpecMapper == InitMapper /\ [][NextMapper]_vars

InitRss == AlertIdle /\ LabelIdle /\ AggIdle /\ DbIdle /\ ArtifactIdle /\ FeatIdle /\ BtIdle /\ WalkIdle /\ PipeIdle /\ PricesIdle /\ ServeIdle /\ SignalsIdle /\ ScorerIdle /\ MapperIdle /\ RssInit /\ FetchIdle /\ StoreIdle /\ RaceIdle /\ MonitorIdle /\ JobIdle /\ IngestIdle

NextRss == RssNext

SpecRss == InitRss /\ [][NextRss]_vars

InitFetch == AlertIdle /\ LabelIdle /\ AggIdle /\ DbIdle /\ ArtifactIdle /\ FeatIdle /\ BtIdle /\ WalkIdle /\ PipeIdle /\ PricesIdle /\ ServeIdle /\ SignalsIdle /\ ScorerIdle /\ MapperIdle /\ RssIdle /\ FetchInit /\ StoreIdle /\ RaceIdle /\ MonitorIdle /\ JobIdle /\ IngestIdle

NextFetch == FetchNext

SpecFetch == InitFetch /\ [][NextFetch]_vars

InitStore == AlertIdle /\ LabelIdle /\ AggIdle /\ DbIdle /\ ArtifactIdle /\ FeatIdle /\ BtIdle /\ WalkIdle /\ PipeIdle /\ PricesIdle /\ ServeIdle /\ SignalsIdle /\ ScorerIdle /\ MapperIdle /\ RssIdle /\ FetchIdle /\ StoreInit /\ RaceIdle /\ MonitorIdle /\ JobIdle /\ IngestIdle

NextStore == StoreNext

SpecStore == InitStore /\ [][NextStore]_vars

InitRace == AlertIdle /\ LabelIdle /\ AggIdle /\ DbIdle /\ ArtifactIdle /\ FeatIdle /\ BtIdle /\ WalkIdle /\ PipeIdle /\ PricesIdle /\ ServeIdle /\ SignalsIdle /\ ScorerIdle /\ MapperIdle /\ RssIdle /\ FetchIdle /\ StoreIdle /\ RaceInit /\ MonitorIdle /\ JobIdle /\ IngestIdle

NextRace == RaceNext

SpecRace == InitRace /\ [][NextRace]_vars

InitMonitor == AlertIdle /\ LabelIdle /\ AggIdle /\ DbIdle /\ ArtifactIdle /\ FeatIdle /\ BtIdle /\ WalkIdle /\ PipeIdle /\ PricesIdle /\ ServeIdle /\ SignalsIdle /\ ScorerIdle /\ MapperIdle /\ RssIdle /\ FetchIdle /\ StoreIdle /\ RaceIdle /\ MonitorInit /\ JobIdle /\ IngestIdle

NextMonitor == MonitorNext

SpecMonitor == InitMonitor /\ [][NextMonitor]_vars

InitJob == AlertIdle /\ LabelIdle /\ AggIdle /\ DbIdle /\ ArtifactIdle /\ FeatIdle /\ BtIdle /\ WalkIdle /\ PipeIdle /\ PricesIdle /\ ServeIdle /\ SignalsIdle /\ ScorerIdle /\ MapperIdle /\ RssIdle /\ FetchIdle /\ StoreIdle /\ RaceIdle /\ MonitorIdle /\ JobInit /\ IngestIdle

NextJob == JobNext

SpecJob == InitJob /\ [][NextJob]_vars

InitIngest == AlertIdle /\ LabelIdle /\ AggIdle /\ DbIdle /\ ArtifactIdle /\ FeatIdle /\ BtIdle /\ WalkIdle /\ PipeIdle /\ PricesIdle /\ ServeIdle /\ SignalsIdle /\ ScorerIdle /\ MapperIdle /\ RssIdle /\ FetchIdle /\ StoreIdle /\ RaceIdle /\ MonitorIdle /\ JobIdle /\ IngestInit

NextIngest == IngestNext

SpecIngest == InitIngest /\ [][NextIngest]_vars

(* ------------------------------------------------------------------ *)
(* Properties of the alert engine                                      *)
(* ------------------------------------------------------------------ *)

CountIn(seq, x) == Cardinality({i \in DOMAIN seq : seq[i] = x})

KnownOperators ==
    {">", "<", ">=", "<=", "==", "!=", "cross_above", "cross_below", "between", "outside"}

\* condition c holds of the field value fv
OpHolds(c, fv) ==
    /\ fv # NaN
    /\ c.operator \in KnownOperators
    /\ Compare(c.operator, fv, c.value) = "true"

\* condition c holds on the bar itself
HoldsOnBar(c, bar) == c.field \in BarColumns /\ OpHolds(c, bar[c.field])

\* condition c holds where evaluate reads it: a 'volatility' condition on the
\* supplied volatility_data (0 for a ticker it does not list), any other on the bar
HoldsWhereRead(c, tk, bar, vol) ==
    IF c.field = "volatility" /\ vol # {}
    THEN OpHolds(c, VolGet(vol, tk, 0))
    ELSE HoldsOnBar(c, bar)

AllHoldOnBar(r, data) ==
    /\ HasTicker(data, r.ticker)
    /\ \A k \in DOMAIN r.conditions : HoldsOnBar(r.conditions[k], LatestBar(data, r.ticker))

AllHoldWhereRead(r, data, vol) ==
    /\ HasTicker(data, r.ticker)
    /\ \A k \in DOMAIN r.conditions :
          HoldsWhereRead(r.conditions[k], r.ticker, LatestBar(data, r.ticker), vol)

InCooldown(r, t) == r.last_triggered # None /\ t - r.last_triggered < r.cooldown_minutes

\* C1: in a pass, an enabled rule whose conditions all hold and whose cooldown
\* has elapsed fires exactly once and gets last_triggered = the firing time;
\* a rule evaluated less than cooldown_minutes after its last firing does not
\* fire and keeps its last_triggered, even though its conditions hold.
C1_Cooldown ==
    last_pass.ran =>
        \A i \in DOMAIN last_pass.before :
            LET r == last_pass.before[i]
                a == last_pass.after[i]
            IN /\ (r.enabled /\ AllHoldWhereRead(r, last_pass.data, last_pass.vol)
                      /\ ~InCooldown(r, last_pass.time))
                    => (CountIn(last_pass.alerts, r.rule_id) = 1
                          /\ a.last_triggered = last_pass.time)
               /\ InCooldown(r, last_pass.time)
                    => (CountIn(last_pass.alerts, r.rule_id) = 0
                          /\ a.last_triggered = r.last_triggered)

\* a rule that fired earlier is re-evaluated inside its cooldown window with
\* its conditions still holding
C1_Witness ==
    /\ last_pass.ran
    /\ \E i \in DOMAIN last_pass.before :
          LET r == last_pass.before[i]
          IN /\ r.enabled
             /\ InCooldown(r, last_pass.time)
             /\ last_pass.time > r.last_triggered
             /\ AllHoldWhereRead(r, last_pass.data, last_pass.vol)
             /\ CountIn(last_pass.alerts, r.rule_id) = 0

\* C2 as stated: a rule fires only if it is enabled, its ticker has a bar and
\* every condition holds on the latest bar of its ticker; a rule that does not
\* fire keeps its last_triggered.
C2_AndOnLatestBar ==
    last_pass.ran =>
        \A i \in DOMAIN last_pass.before :
            LET r == last_pass.before[i]
                fired == CountIn(last_pass.alerts, r.rule_id) > 0
            IN /\ fired => (r.enabled /\ AllHoldOnBar(r, last_pass.data))
               /\ ~fired => last_pass.after[i].last_triggered = r.last_triggered

\* C2 amended: a rule fires only if it is enabled, its ticker has a bar and
\* every condition holds, a 'volatility' condition being read from a
\* non-empty volatility_data (0 for an unlisted ticker) and every other
\* condition from the latest bar of the ticker; a rule that does not fire
\* keeps its last_triggered.
C2_AndSemantics ==
    last_pass.ran =>
        \A i \in DOMAIN last_pass.before :
            LET r == last_pass.before[i]
                fired == CountIn(last_pass.alerts, r.rule_id) > 0
            IN /\ fired => (r.enabled /\ AllHoldWhereRead(r, last_pass.data, last_pass.vol))
               /\ ~fired => last_pass.after[i].last_triggered = r.last_triggered

\* an enabled rule outside its cooldown with two conditions, of which only
\* the first holds on the latest of two bars, did not fire
C2_Witness ==
    /\ last_pass.ran
    /\ \E i \in DOMAIN last_pass.before :
          LET r == last_pass.before[i]
          IN /\ r.enabled /\ ~InCooldown(r, last_pass.time)
             /\ HasTicker(last_pass.data, r.ticker)
             /\ Cardinality({b \in last_pass.data : b.ticker = r.ticker}) = 2
             /\ Len(r.conditions) = 2
             /\ HoldsOnBar(r.conditions[1], LatestBar(last_pass.data, r.ticker))
             /\ ~HoldsOnBar(r.conditions[2], LatestBar(last_pass.data, r.ticker))
             /\ CountIn(last_pass.alerts, r.rule_id) = 0
             /\ last_pass.after[i].last_triggered = r.last_triggered

\* C3: a pass returns normally, evaluates every rule of the collection, calls
\* log_rule_error for exactly the rules whose evaluation or trigger logging
\* raised, and returns the alerts of exactly the rules that fired.
C3_ErrorIsolation ==
    last_pass.ran =>
        /\ last_pass.returned
        /\ last_pass.evaluated = [i \in DOMAIN last_pass.before |-> last_pass.before[i].rule_id]
        /\ \A i \in DOMAIN last_pass.before :
              LET r == last_pass.before[i]
                  out == Evaluate(r, last_pass.data, last_pass.vol, last_pass.time)
              IN /\ (out = "raise" \/ (out = "true" /\ ~last_pass.json_ok))
                      <=> CountIn(last_pass.errors, r.rule_id) = 1
                 /\ (out = "true") <=> CountIn(last_pass.alerts, r.rule_id) = 1

\* a rule whose evaluation raised is followed, in the same pass, by a rule that fired
C3_Witness ==
    /\ last_pass.ran /\ last_pass.returned
    /\ \E i, j \in DOMAIN last_pass.before :
          /\ i < j
          /\ Evaluate(last_pass.before[i], last_pass.data, last_pass.vol, last_pass.time) = "raise"
          /\ CountIn(last_pass.errors, last_pass.before[i].rule_id) = 1
          /\ CountIn(last_pass.alerts, last_pass.before[j].rule_id) = 1

(* ------------------------------------------------------------------ *)
(* Properties of the labeler                                           *)
(* ------------------------------------------------------------------ *)

\* the buckets of ticker tk in the price-joined series
JoinedWeeks(tk) == { k.bucket_start : k \in { x \in sent_bars : x.ticker = tk } }

\* 1-based position of bucket w in the joined series of tk sorted by bucket_start
PosOf(tk, w) == Cardinality({ v \in JoinedWeeks(tk) : v <= w })

WeekAt(tk, i) == CHOOSE w \in JoinedWeeks(tk) : PosOf(tk, w) = i

\* C4: every output row is row i of its ticker's sorted joined series with
\* i + horizon_bars inside that series, and its close_fwd is the close of row
\* i + horizon_bars of the same ticker; so the last horizon_bars rows of every
\* ticker are absent, and no row gets a close of another ticker.
C4_ForwardShift ==
    label_pc = "done" =>
        \A r \in training_set :
            LET i == PosOf(r.ticker, r.bucket_start)
                n == Cardinality(JoinedWeeks(r.ticker))
            IN /\ r.bucket_start \in JoinedWeeks(r.ticker)
               /\ r.close = prices_weekly[r.ticker][r.bucket_start]
               /\ i + horizon_bars <= n
               /\ r.close_fwd = prices_weekly[r.ticker][WeekAt(r.ticker, i + horizon_bars)]
               /\ r.close_fwd # NaN

\* both tickers are in the joined table, ticker A has an output row, and the
\* last row of ticker A, followed in the sorted table by a priced row of
\* ticker B, is absent from the output although its own close is known
C4_Witness ==
    /\ label_pc = "done"
    /\ \E r \in training_set : r.ticker = "A"
    /\ JoinedWeeks("B") # {}
    /\ LET last == WeekAt("A", Cardinality(JoinedWeeks("A")))
       IN /\ prices_weekly["A"][last] # NaN
          /\ ~\E r \in training_set : r.ticker = "A" /\ r.bucket_start = last

\* C5 as stated: close_fwd of every output row is the close of the same
\* ticker at bucket_start + horizon_bars bucket widths.
C5_ForwardByTime ==
    label_pc = "done" =>
        \A r \in training_set :
            /\ r.bucket_start + horizon_bars \in Weeks
            /\ r.close_fwd = prices_weekly[r.ticker][r.bucket_start + horizon_bars]

\* fraction r is strictly positive
Positive(r) == ~r.nan /\ r.num * r.den > 0

\* C6: every output row has a defined r_fwd = close_fwd/close - 1, and
\* y = 1 exactly when r_fwd > 0; a row with close_fwd = close has y = 0.
C6_LabelBoundary ==
    label_pc = "done" =>
        \A r \in training_set :
            /\ ~r.r_fwd.nan
            /\ r.close # NaN /\ r.close_fwd # NaN
            /\ r.r_fwd.num = r.close_fwd - r.close /\ r.r_fwd.den = r.close
            /\ r.y \in {0, 1}
            /\ r.y = 1 <=> Positive(r.r_fwd)
            /\ r.close_fwd = r.close => r.y = 0

\* the output holds a row with r_fwd = 0 labelled 0 and a row labelled 1
C6_Witness ==
    /\ label_pc = "done"
    /\ \E r \in training_set : r.r_fwd.num = 0 /\ r.y = 0
    /\ \E r \in training_set : r.r_fwd.num > 0 /\ r.y = 1

(* ------------------------------------------------------------------ *)
(* Properties of the aggregator and of the bucket alignment            *)
(* ------------------------------------------------------------------ *)

\* the article rows that floor into bucket b of ticker tk
RowsInBucket(tk, b) ==
    { i \in DOMAIN articles :
        articles[i].ticker = tk /\ BucketFloor(articles[i].published_at, window) = b }

\* C7: the bars are exactly one per (ticker, bucket_start) pair that at least
\* one article row floors into, count is the number of those rows, and no bar
\* has count 0.
C7_BarCount ==
    "bars" \in agg_done =>
        /\ \A g, h \in sentiment_bars :
              (g.ticker = h.ticker /\ g.bucket_start = h.bucket_start) => g = h
        /\ \A g \in sentiment_bars :
              g.count = Cardinality(RowsInBucket(g.ticker, g.bucket_start)) /\ g.count > 0
        /\ \A i \in DOMAIN articles :
              \E g \in sentiment_bars :
                  /\ g.ticker = articles[i].ticker
                  /\ g.bucket_start = BucketFloor(articles[i].published_at, window)

\* two articles of one ticker share a bucket and make one bar of count 2,
\* and the ticker without articles has no bar at all
C7_Witness ==
    /\ "bars" \in agg_done
    /\ \E g \in sentiment_bars : g.count = 2
    /\ \E tk \in LabelTickers : \A g \in sentiment_bars : g.ticker # tk

\* C8: under the window 'W-MON' a sentiment bar built from an article
\* published at t matches, in the inner join on (ticker, bucket_start), the
\* resampled price of the same ticker observed at t.
C8_BucketsAlign ==
    (agg_done = {"bars", "prices", "merge"} /\ window = "W-MON") =>
        \A i \in DOMAIN articles : \A o \in price_obs :
            (articles[i].ticker = o.ticker /\ articles[i].published_at = o.timestamp)
                => \E m \in merged :
                      /\ m.ticker = o.ticker
                      /\ m.bucket_start = BucketFloor(o.timestamp, window)
                      /\ m.close = o.close

(* ------------------------------------------------------------------ *)
(* Properties of the bar persistence                                   *)
(* ------------------------------------------------------------------ *)

SameKey(r, x) == r.ticker = x.ticker /\ r.bucket_start = x.bucket_start

\* the rows of save j that were written and not overwritten later in the save
LastWritten(j) ==
    { InsertTuple(saves[j].df[i]) :
        i \in { k \in saves[j].executed :
                  \A m \in saves[j].executed :
                      SameKey(saves[j].df[m], saves[j].df[k]) => m <= k } }

\* what the commit of save j has to do to the table
UpsertCommitted(j) ==
    /\ LastWritten(j) \subseteq db_rows'
    /\ \A x \in db_rows' : x \in LastWritten(j) \/ x \in db_rows
    /\ \A x \in db_rows :
          (\A r \in LastWritten(j) : ~SameKey(r, x)) => x \in db_rows'
    /\ (\A i \in DOMAIN saves[j].df : InsertTuple(saves[j].df[i]) \in db_rows)
          => db_rows' = db_rows

\* C9: the table never holds two rows with one (ticker, bucket_start); when a
\* save ends, every key it wrote carries the values of its last row for that
\* key and the other keys keep their rows; a save whose bars are all in the
\* table already leaves the rows as they were. Saves may overlap.
C9_IdempotentUpsert ==
    /\ [](\A x, y \in db_rows : SameKey(x, y) => x = y)
    /\ [][\A j \in SaveJobs :
            (saves[j].pc = "saving" /\ saves'[j].pc = "idle") => UpsertCommitted(j)]_vars

\* two saves overlap, and the one that holds the write lock has replaced the
\* committed row of a key by a row with another value
C9_Witness ==
    \E j, k \in SaveJobs :
        /\ j # k
        /\ saves[j].pc = "saving" /\ saves[k].pc = "saving"
        /\ db_lock = j
        /\ \E x \in db_rows : \E y \in tx_rows :
              /\ SameKey(x, y) /\ x.mean_sent # y.mean_sent
              /\ \A z \in tx_rows : SameKey(z, y) => z = y

(* ------------------------------------------------------------------ *)
(* Properties of the model artifact                                    *)
(* ------------------------------------------------------------------ *)

\* C10: every load that finds the file returns a complete artifact, the
\* previous one or the new one, also while train_and_save is writing.
C10_AtomicArtifact ==
    \A r \in Readers : loads[r].result \notin {"EOFError", "UnpicklingError"}

(* ------------------------------------------------------------------ *)
(* Properties of the feature selection                                 *)
(* ------------------------------------------------------------------ *)

\* C11: for a fitted model the table handed to the classifier has exactly the
\* columns of feature_cols in that order, a column absent from the input is 0,
\* columns outside feature_cols are ignored, and the probability is the same
\* for the input with its columns permuted and unrelated columns injected.
C11_ReindexContract ==
    (feat_pc \in {"predicted", "compared"} /\ feature_cols # <<>>) =>
        /\ Len(X_sel) = Len(feature_cols)
        /\ \A i \in DOMAIN feature_cols :
              /\ X_sel[i].name = feature_cols[i]
              /\ \/ \E c \in Range(X_in) :
                       /\ c.name = feature_cols[i]
                       /\ X_sel[i].value = (IF c.value = NaN THEN 0 ELSE c.value)
                 \/ /\ \A c \in Range(X_in) : c.name # feature_cols[i]
                    /\ X_sel[i].value = 0
        /\ feat_pc = "compared" => proba_alt = proba

\* a fitted model, an input that lacks a training column, and a variant of it
\* with another column order and an injected column; the probability is not 0
C11_Witness ==
    /\ feat_pc = "compared"
    /\ feature_cols # <<>>
    /\ proba > 0
    /\ \E name \in Range(feature_cols) : ~HasColumn(X_in, name)
    /\ HasColumn(X_alt, "extra_col") /\ ~HasColumn(X_in, "extra_col")
    /\ \E i \in DOMAIN X_in : X_alt[i] # X_in[i]

(* ------------------------------------------------------------------ *)
(* Properties of the single-split backtest                             *)
(* ------------------------------------------------------------------ *)

\* C12: every row's pnl is r_fwd - costs_bps/10000 when the row's P is
\* strictly greater than threshold_long and 0 otherwise; a probability at or
\* below the threshold never gives a non-zero pnl.
C12_LongOnlyPnl ==
    bt_pc = "done" =>
        \A i \in DOMAIN bt_out :
            /\ bt_out[i].P > threshold_long => bt_out[i].pnl = bt_out[i].r_fwd - costs_bps
            /\ bt_out[i].P <= threshold_long => bt_out[i].pnl = 0

\* one row exactly at the threshold with a non-zero return stays flat, and
\* another row above the threshold is a losing trade
C12_Witness ==
    /\ bt_pc = "done"
    /\ \E i \in DOMAIN bt_out :
          bt_out[i].P = threshold_long /\ bt_out[i].r_fwd # 0 /\ bt_out[i].pnl = 0
    /\ \E i \in DOMAIN bt_out :
          bt_out[i].P > threshold_long /\ bt_out[i].pnl < 0

\* C13: the first value of the equity curve is exactly 1.0, also when the
\* first row is a trade with a non-zero pnl.
C13_EquityStartsAtOne ==
    bt_pc = "done" => bt_out[1].equity = [num |-> 1, den |-> 1]

(* ------------------------------------------------------------------ *)
(* Properties of the walk-forward backtest                             *)
(* ------------------------------------------------------------------ *)

\* C14: when int(n * train_size) is smaller than min_train_samples, run
\* returns the insufficient-data error, fits no model and records no fold:
\* self.results is not even reset.
C14_FailFast ==
    (wf_pc = "done" /\ IntPct(Len(wf_y), wf_params.train_pct) < wf_params.min_train) =>
        /\ wf_call.ret = "Insufficient data"
        /\ wf_call.fits = 0
        /\ ~wf_call.reset
        /\ wf_results \in {<<>>, <<StaleFold>>}

\* a table with enough rows of both classes to fit on, rejected because the
\* initial training window is one row short of min_train_samples
C14_Witness ==
    /\ wf_pc = "done"
    /\ wf_call.ret = "Insufficient data"
    /\ IntPct(Len(wf_y), wf_params.train_pct) = wf_params.min_train - 1
    /\ FitOutcome(wf_y, 0, IntPct(Len(wf_y), wf_params.train_pct)) = "fitted"
    /\ wf_results = <<StaleFold>>

\* C15: a fold with fewer than two label classes reports AUC exactly 0.5 and
\* the run goes on without an exception, whether the single class is in the
\* test slice or in the training window.
C15_SingleClassFolds ==
    wf_pc = "done" =>
        /\ wf_call.reset =>
              \A k \in DOMAIN wf_results :
                  Cardinality(Slice(wf_y, wf_results[k].train_end, wf_results[k].test_end)) < 2
                      => wf_results[k].auc = Half
        /\ ~(/\ wf_call.ret = "ValueError"
             /\ Cardinality(Slice(wf_y, wf_call.failed[1], wf_call.failed[2])) < 2)

\* the rows that some recorded fold of this call tested
TestedRows ==
    UNION { wf_results[k].train_end..(wf_results[k].test_end - 1) : k \in DOMAIN wf_results }

\* C16: when the run passes the minimum-sample check and ends normally, the
\* test slices are consecutive and contain every row from position
\* int(n * train_size) on exactly once.
C16_Coverage ==
    (wf_pc = "done" /\ wf_call.ret = "ok") =>
        /\ \A k \in DOMAIN wf_results :
              wf_results[k].train_end =
                  (IF k = 1 THEN IntPct(Len(wf_y), wf_params.train_pct)
                   ELSE wf_results[k - 1].test_end)
        /\ TestedRows = IntPct(Len(wf_y), wf_params.train_pct)..(Len(wf_y) - 1)

(* ------------------------------------------------------------------ *)
(* Properties of the training pipeline                                 *)
(* ------------------------------------------------------------------ *)

\* C17: when a stage yields an empty result no later stage runs and no empty
\* artifact is written: no file of the run holds 0 rows, and a run that
\* stopped has neither trained nor saved a model.
C17_HardStop ==
    /\ \A f \in PipeFiles : pipe_files[f] # 0
    /\ pipe_pc = "stopped" =>
          /\ pipe_files["outputs/prob_model.pkl"] = Absent
          /\ \A i \in DOMAIN pipe_stages : pipe_stages[i] \notin {"train", "backtest"}

(* ------------------------------------------------------------------ *)
(* Properties of the price loading                                     *)
(* ------------------------------------------------------------------ *)

Tradeable(i) == price_env.symbols[i].sym \notin NonTradeable

\* the downloads that are made and return a usable table
YieldedData ==
    { i \in DOMAIN price_env.symbols :
        /\ price_env.import_ok
        /\ Tradeable(i)
        /\ price_env.symbols[i].outcome = "data"
        /\ \A j \in 1..(i - 1) : Tradeable(j) => price_env.symbols[j].outcome # "raise" }

SomeDownloadRaises ==
    /\ price_env.import_ok
    /\ \E i \in DOMAIN price_env.symbols : Tradeable(i) /\ price_env.symbols[i].outcome = "raise"

FallbackResult ==
    /\ prices_df.source = (IF price_env.demo = "missing" THEN "empty" ELSE "demo")
    /\ (price_pc \in {"returned_empty", "resampling"} =>
           (price_pc = "returned_empty" <=> price_env.demo = "missing"))

\* C18 as stated: live prices whenever the live source yields data for at
\* least one symbol; demo prices when it yields none; an empty table, and an
\* empty result of make_labels, when the demo file is missing too.
C18_LiveWheneverData ==
    price_pc # "start" =>
        /\ YieldedData # {} => prices_df.source = "live"
        /\ YieldedData = {} => FallbackResult

\* C18, amended: live prices when yfinance imports, no download raises and at
\* least one symbol returns a usable table; in every other case, also when a
\* symbol raises after others returned data, the demo prices, or an empty
\* table and an empty result of make_labels when the demo file is missing.
C18_FallbackChain ==
    price_pc # "start" =>
        /\ (YieldedData # {} /\ ~SomeDownloadRaises) =>
              /\ prices_df.source = "live"
              /\ Range(prices_df.live) = { price_env.symbols[i].sym : i \in YieldedData }
              /\ price_pc # "returned_empty"
        /\ (YieldedData = {} \/ SomeDownloadRaises) => FallbackResult

\* one symbol returned data, the next one raised, and the demo prices were
\* returned instead of the live ones
C18_Witness ==
    /\ price_pc = "resampling"
    /\ YieldedData # {}
    /\ SomeDownloadRaises
    /\ prices_df.source = "demo"

(* ------------------------------------------------------------------ *)
(* Properties of the serving endpoints                                 *)
(* ------------------------------------------------------------------ *)

\* C19: /signal and /probabilities answer 404 for a ticker without bars, 503
\* when bars exist but no model is loaded, and never return a probability or
\* a decision that the model did not produce.
C19_ServingStatus ==
    api_response.endpoint # "none" =>
        LET has_bars == api_bars.exists
                        /\ \E r \in api_bars.rows : r.ticker = api_response.ticker
        IN /\ ~has_bars => api_response.status = 404
           /\ (has_bars /\ ~api_model) => api_response.status = 503
           /\ api_response.status = 200 => api_response.by_model

(* ------------------------------------------------------------------ *)
(* Properties of the threshold consumers                               *)
(* ------------------------------------------------------------------ *)

\* C20: no component replaces a threshold that is missing from the
\* configuration by a built-in default, and none emits a decision or an alert
\* when a threshold it uses is missing.
C20_NoSilentDefaults ==
    signal_run.component # "none" =>
        /\ ~signal_run.defaulted
        /\ (signal_config.threshold_long = Absent /\ signal_run.alerts # {})
               => signal_run.status = "raised"

(* ------------------------------------------------------------------ *)
(* Properties of the sentiment scorer                                  *)
(* ------------------------------------------------------------------ *)

\* C21: each empty or whitespace-only text yields (0, 0, 1, 0) at its own
\* position, and no model invocation has such a text among its inputs (a
\* batch made only of empty texts causes no invocation).
C21_EmptyTextRule ==
    sc_pc = "done" =>
        /\ Len(sc_results) = Len(sc_texts)
        /\ \A i \in 1..Len(sc_texts) :
               IsEmptyText(sc_texts[i]) => sc_results[i] = NeutralResult
        /\ \A k \in 1..Len(sc_calls) :
               /\ Len(sc_calls[k].inputs) > 0
               /\ \A j \in 1..Len(sc_calls[k].inputs) :
                      ~IsEmptyText(sc_texts[sc_calls[k].start + j - 1])

(* ------------------------------------------------------------------ *)
(* Properties of the entity normalizer                                 *)
(* ------------------------------------------------------------------ *)

\* some alias of the k-th ticker occurs, ignoring case, in the article text
TickerOccurs(row, k) ==
    LET text == LowerText(ArticleText(row))
    IN \E a \in 1..Len(tickers_yml[k].aliases) :
           LET alias == LowerText(tickers_yml[k].aliases[a])
           IN \E i \in 1..(Len(text) + 1) :
                  /\ i + Len(alias) - 1 <= Len(text)
                  /\ SubSeq(text, i, i + Len(alias) - 1) = alias

\* the (article position, ticker position) pairs that must appear, ordered by
\* article and then by the map's insertion order
ExpectedPairs ==
    { <<i, k>> \in (1..Len(map_df)) \X (1..Len(tickers_yml)) : TickerOccurs(map_df[i], k) }

PairsBefore(p) ==
    Cardinality({ q \in ExpectedPairs : q[1] < p[1] \/ (q[1] = p[1] /\ q[2] < p[2]) })

\* C22: map_entities returns exactly one row per (article, ticker) pair whose
\* alias occurs case-insensitively in title + ' ' + body, in article order and
\* in the alias map's insertion order; articles without a match give no row.
C22_Explode ==
    map_pc = "done" =>
        /\ Len(map_out) = Cardinality(ExpectedPairs)
        /\ \A p \in ExpectedPairs :
               LET r == map_out[PairsBefore(p) + 1]
               IN /\ r.id = map_df[p[1]].id
                  /\ r.ticker = tickers_yml[p[2]].ticker
                  /\ r.title = map_df[p[1]].title
                  /\ r.body = map_df[p[1]].body

\* an article matching two tickers next to one matching none
C22_Witness ==
    /\ map_pc = "done"
    /\ \E i \in 1..Len(map_df) :
           Cardinality({ p \in ExpectedPairs : p[1] = i }) = 2
    /\ \E i \in 1..Len(map_df) :
           Cardinality({ p \in ExpectedPairs : p[1] = i }) = 0
    /\ Len(map_out) = 2

(* ------------------------------------------------------------------ *)
(* Properties of RSS ingestion                                         *)
(* ------------------------------------------------------------------ *)

\* the entries that pass the length and language filters, as <<feed, entry>>
Eligible ==
    { p \in (1..Len(rss_feeds)) \X (1..2) :
        /\ rss_feeds[p[1]].parsed
        /\ p[2] <= Len(rss_feeds[p[1]].entries)
        /\ LET e == rss_feeds[p[1]].entries[p[2]]
           IN e.long /\ e.lang # "none"
              /\ (rss_langs = {} \/ e.lang \in rss_langs) }

IdOf(p) == ArticleId(rss_feeds[p[1]].entries[p[2]].title, rss_feeds[p[1]].domain)

Earlier(p, q) == p[1] < q[1] \/ (p[1] = q[1] /\ p[2] < q[2])

\* C23: no two articles of one fetch_rss call share an id; an eligible entry
\* is emitted exactly when no earlier eligible entry of the call has its id.
C23_Dedup ==
    /\ \A a, b \in 1..Len(rss_articles) :
           rss_articles[a].article.id = rss_articles[b].article.id => a = b
    /\ rss_pc = "done" =>
           { r.origin : r \in Range(rss_articles) }
             = { p \in Eligible : \A q \in Eligible : IdOf(q) = IdOf(p) => ~Earlier(q, p) }

\* a duplicate across two feeds of different domains was skipped
C23_Witness ==
    /\ rss_pc = "done"
    /\ \E p, q \in Eligible :
           /\ p[1] # q[1]
           /\ rss_feeds[p[1]].domain # rss_feeds[q[1]].domain
           /\ IdOf(p) = IdOf(q)
    /\ Len(rss_articles) >= 1

(* ------------------------------------------------------------------ *)
(* Properties of the feed fetch                                        *)
(* ------------------------------------------------------------------ *)

\* C24: the parser is called at most max_retries times; the call sequence is
\* failures followed by at most one success, which ends it and is the result;
\* a failure ends it only when it is the max_retries-th call, with result None.
C24_Retry ==
    /\ Len(parse_log) <= max_retries
    /\ \A k \in 1..Len(parse_log) : ~parse_log[k].raised => k = Len(parse_log)
    /\ fetch_pc = "done" =>
         IF parse_log # <<>> /\ ~parse_log[Len(parse_log)].raised
         THEN fetch_result = parse_log[Len(parse_log)].value
         ELSE fetch_result = "None" /\ Len(parse_log) = max_retries
    /\ fetch_pc # "done" => fetch_result = "pending"

\* a success on the last allowed attempt, after two failures
C24_Witness ==
    /\ fetch_pc = "done"
    /\ max_retries = 3
    /\ Len(parse_log) = 3
    /\ fetch_result \in ParsedFeeds
    /\ sleeps = 2

(* ------------------------------------------------------------------ *)
(* Properties of the rule store                                        *)
(* ------------------------------------------------------------------ *)

\* C25: after add_rule, remove_rule and a pass that triggers, the persisted
\* collection equals the in-memory one, with one entry per rule_id, and no
\* rule fires again within its cooldown, across restarts.
C25_StoreConsistent ==
    /\ store_op \in {"add_rule", "remove_rule", "process_alerts"} =>
           /\ rules_file = SaveRules(engine_rules)
           /\ \A i, j \in 1..Len(rules_file) :
                  rules_file[i].rule_id = rules_file[j].rule_id => i = j
    /\ ~refired

(* ------------------------------------------------------------------ *)
(* Properties of rule CRUD racing a pass                               *)
(* ------------------------------------------------------------------ *)

TimesEvaluated(id) ==
    Cardinality({ k \in 1..Len(iteration.evaluated) : iteration.evaluated[k] = id })

\* C26: a pass interleaved with add_rule / remove_rule returns normally and
\* has evaluated exactly once every rule that stayed in the collection for
\* the whole pass.
C26_PassSurvivesCrud ==
    /\ iteration.pc # "raised"
    /\ iteration.pc = "returned" =>
           \A id \in iteration.stable : TimesEvaluated(id) = 1

\* the part that does hold: a pass that returns evaluated each stable rule once
C26_ReturnedPassComplete ==
    iteration.pc = "returned" =>
        \A id \in iteration.stable : TimesEvaluated(id) = 1

(* ------------------------------------------------------------------ *)
(* Properties of the monitor lifecycle                                 *)
(* ------------------------------------------------------------------ *)

LiveThreads == { k \in 1..Len(monitor_threads) : Alive(monitor_threads[k]) }

\* C27: with start_monitoring and stop_monitoring called one after another,
\* at most one monitor thread is alive; once stop_monitoring has returned no
\* thread is alive until the next start; a loop ends only by seeing the flag
\* cleared, never by an exception of a pass.
C27_MonitorLifecycle ==
    /\ Cardinality(LiveThreads) <= 1
    /\ (caller.pc = "idle" /\ caller.last = "stop") => LiveThreads = {}
    /\ (caller.pc = "idle" /\ caller.last = "start") => Cardinality(LiveThreads) = 1
    /\ \A k \in 1..Len(monitor_threads) :
           ~Alive(monitor_threads[k]) => monitor_threads[k].saw_stop

\* a second start after a stop, with a pass that raised in the first thread
C27_Witness ==
    /\ Len(monitor_threads) = 2
    /\ ~Alive(monitor_threads[1])
    /\ monitor_threads[1].passes = 1
    /\ Alive(monitor_threads[2])
    /\ caller = [pc |-> "idle", last |-> "start"]

(* ------------------------------------------------------------------ *)
(* Row alignment of the single-split backtest                          *)
(* ------------------------------------------------------------------ *)

\* C28: for a table passed in any row order, the probability attached to a
\* row, used for its pnl and paired with its y in the metrics, is the one
\* predicted from that row's own features.
C28_RowAlignment ==
    bt_pc = "done" =>
        \A i \in DOMAIN bt_out : bt_out[i].P = bt_out[i].p_model

(* ------------------------------------------------------------------ *)
(* Properties of the scheduled alert job                               *)
(* ------------------------------------------------------------------ *)

\* C29: for every ticker with stored bars the job computes the probability
\* from the bar with the greatest bucket_start, the bar that AlertRule.evaluate
\* and /signal select.
C29_LatestBar ==
    (job_pc = "done" /\ job_model) =>
        \A t \in { r.ticker : r \in job_table } :
            /\ t \in DOMAIN job_used
            /\ job_used[t] = LastRow(job_table, t)

(* ------------------------------------------------------------------ *)
(* Properties of article persistence                                   *)
(* ------------------------------------------------------------------ *)

\* C30: every (id, ticker) row of the mapped batch is in the articles table
\* after the job, and the count returned by save_articles is the number of
\* rows stored.
C30_NoPairLost ==
    ingest_pc = "done" =>
        /\ \A i \in DOMAIN ingest_mapped :
               \E r \in articles_table :
                   r.id = ingest_mapped[i].id /\ r.ticker = ingest_mapped[i].ticker
        /\ ingest_count = Cardinality(articles_table)

====
